---- MODULE Spec2Model ----
(***************************************************************************)
(* State-machine model of the goshared executor package: the Dispatcher,   *)
(* its response channels (conduit set), the waiting-task registry with its *)
(* housekeeping goroutines, the CondVar retry-broadcast primitive, and the *)
(* executor threads (workers).                                             *)
(*                                                                         *)
(* Granularity: one action per access to shared memory (a map read or      *)
(* write, a channel operation, a critical section under one mutex).  A     *)
(* critical section that never blocks inside is one atomic step.  A Go     *)
(* panic in any goroutine ends the process: `crashed` records it and no    *)
(* action is enabled afterwards.                                           *)
(***************************************************************************)
EXTENDS Integers, Sequences, FiniteSets, TLC

\* ------------------------------------------------------------- bounds
MaxTasks == 2
MaxChannels == 2
MaxCapacity == 1
MaxStopTasks == 1
MaxExecutors == 3
MaxPoolTasks == 2
MaxWorkerTasks == 3
MaxRcTasks == 5
MaxChanAvailTasks == 3
MaxRcChannels == 3
MaxRcCapacity == 2
\* The wall clock: ticks in one second (the range of Nanosecond()), the
\* last instant looked at and the longest durationLimit, all in ticks of
\* one gapInterval.
SecondLength == 8
MaxClock == 20
MaxDurationLimit == 3

\* ------------------------------------------------- program constants
TaskStatusNotSubmitted == 0
TaskStatusFailedToSubmit == 1
TaskStatusCompletedSuccessfully == 200
TaskStatusCompletedFailed == 500
AsyncTaskExecutorCount == 1
BlockingTaskExecutorCount == 1
TaskQueueCapacity == 1
\* Submit calls made by TestExecutionServiceSubmissionFailure
TestSubmits == 3
\* wg.Add(2): the waiters of TestCondVar_Broadcast
TestWaiters == 2
\* TaskQueueCapacity of the executor tests
WorkerQueueCapacity == 2

Tasks ==
  LET n == {MaxTasks, MaxStopTasks, MaxPoolTasks, MaxWorkerTasks, MaxRcTasks,
            MaxChanAvailTasks, TestSubmits}
  IN  1..(CHOOSE x \in n : \A y \in n : y <= x)

\* An executor thread is named by the array it lives in and its index there:
\* es.asyncExecutors[i] is <<FALSE, i>>, es.blockingExecutors[i] is <<TRUE, i>>.
WorkersOf(c) ==
  {<<FALSE, i>> : i \in 0..(c.AsyncTaskExecutorCount - 1)} \cup
  {<<TRUE, i>> : i \in 0..(c.BlockingTaskExecutorCount - 1)}

\* Response{TaskId, Status}; the Result string and Errors are not read by
\* any code of the package.
ZeroResponse == [TaskId |-> 0, Status |-> TaskStatusNotSubmitted]
\* a nil *Response
NilResponse == [TaskId |-> -1, Status |-> -1]

NewResponse(tid) == [TaskId |-> tid, Status |-> TaskStatusNotSubmitted]

FailedToSubmitResponse(tid) ==
  [NewResponse(tid) EXCEPT !.Status = TaskStatusFailedToSubmit]

\* waitingTask{cond, responseReceived, taskResponse, blocking}.  cond names
\* the CondVar by the task whose addNewWaitingTask created it; 0 is nil.
ZeroWaitingTask ==
  [cond |-> 0, responseReceived |-> FALSE,
   taskResponse |-> ZeroResponse, blocking |-> FALSE]

VARIABLES
  cfg,               \* DispatcherCfg + ExecCfg in use
  callers,           \* the code calling Submit: how many tasks it submits,
                     \* and whether from one goroutine, one call after another
  crashed,           \* "none", or the panic that ended the process
  \* ---- tasks handed to Submit (one caller goroutine per task)
  taskId,            \* Task.GetId()
  taskBlocking,      \* Task.IsBlocking()
  taskRespChan,      \* Task.GetRespChan(): conduit index, -1 is nil
  execStatus,        \* status produced by the task's Execute (0: not run)
  subpc,             \* position of the caller inside Submit / submitTask
  subErr,            \* error returned by Submit ("none": nil)
  subResp,           \* *Response returned by Submit
  subChan,           \* index i returned by nextAvailChanIndex
  subWorker,         \* executor index picked by ExecutorPool.Submit
  subNwt,            \* submitTask's nwt: "r" (the new record) or "upd"
  subUpd,            \* submitTask's updatedWt copy
  \* ---- waiting tasks
  waitingTasks,      \* Dispatcher.waitingTasks: map id -> waitingTask
  rObj,              \* the record r allocated by addNewWaitingTask
  hkpc,              \* position of the housekeeping goroutine
  hkWt,              \* housekeeper's wt: "r" or "upd"
  hkUpd,             \* housekeeper's updatedWt copy
  \* ---- CondVar, one per waiting task
  howManyLeft,       \* CondVar.howManyLeft
  helpers,           \* running broadcast(cv) goroutines per CondVar
  entering,          \* those of them that have not made their first pass
  cvWaiters,         \* goroutines calling Wait on a CondVar of their own
                     \* making (waitInGoRoutine): position, and sawLeft,
                     \* the howManyLeft found when Wait was called (read by
                     \* no code; kept to state properties)
  cvCalls,           \* the Broadcast calls their maker has completed: r, err
  now,               \* the wall clock, in ticks of one gapInterval
  bcast,             \* a broadcast(cv) goroutine followed against the clock:
                     \* position, durationLimit, start (its Nanosecond()
                     \* reading), begun (the instant of that reading) and
                     \* whether it logged a deficit
  \* ---- responseChannels
  responseChannels,  \* buffered chan Response, per conduit
  rcClosed,          \* the conduits were closed by responseChannels.stop
  tasksWaitingOnChn,
  firstAvailable,
  rcContinueRun,
  muxOwner,          \* holder of responseChannels.mux (0: unlocked)
  rpc,               \* position of each conduit reader goroutine
  rTr,               \* reader's tr
  rWt,               \* reader's wt
  \* ---- executor threads
  continueRun,       \* thread.continueRun
  taskQueue,         \* thread.taskQueue contents
  queueState,        \* "nil" | "open" | "closed"
  wpc,               \* position of thread.run
  wTsk,              \* task being handled by thread.run (0: none)
  \* ---- Dispatcher.Start / Dispatcher.Stop
  stoppc,            \* position of the goroutine calling Dispatcher.Stop
  \* ---- TaskStats
  JobStats

taskVars == <<taskId, taskBlocking, taskRespChan, execStatus>>
subVars == <<subpc, subErr, subResp, subChan, subWorker, subNwt, subUpd>>
wtVars == <<waitingTasks, rObj, hkpc, hkWt, hkUpd>>
cvVars == <<howManyLeft, helpers, entering>>
cvTest == <<cvWaiters, cvCalls>>
clockVars == <<now, bcast>>
rcVars == <<responseChannels, rcClosed, tasksWaitingOnChn, firstAvailable,
            rcContinueRun, muxOwner, rpc, rTr, rWt>>
thrVars == <<continueRun, taskQueue, queueState, wpc, wTsk>>

vars == <<cfg, callers, clockVars, cvTest, crashed, taskVars, subVars, wtVars, cvVars, rcVars, thrVars,
          stoppc, JobStats>>

Chans == 0..(cfg.ChannelCount - 1)

Workers == WorkersOf(cfg)

Configs ==
  [ChannelCount : 1..MaxChannels,
   ChannelCapacity : 1..MaxCapacity,
   WaitForChanAvail : BOOLEAN,
   WaitForAvailability : BOOLEAN,
   TaskQueueCapacity : {TaskQueueCapacity},
   AsyncTaskExecutorCount : {AsyncTaskExecutorCount},
   BlockingTaskExecutorCount : {BlockingTaskExecutorCount}]

\* ------------------------------------------------------------ map helpers
\* m[k] of a Go map: the zero value when k is absent.
MapGet(m, k) == IF k \in DOMAIN m THEN m[k] ELSE ZeroWaitingTask

MapPut(m, k, v) == [x \in (DOMAIN m) \cup {k} |-> IF x = k THEN v ELSE m[x]]

MapDelete(m, k) == [x \in (DOMAIN m) \ {k} |-> m[x]]

\* ------------------------------------------------------------------ Init
\* NewExecutionService / buildExecService: NewDispatcher, newRC,
\* NewExecutorPool, NewExecutor, newTaskStats.  Nothing is started.
\* No broadcast(cv) goroutine is followed against the clock.
NoTimedHelper ==
  [pc |-> "none", durationLimit |-> 0, start |-> 0, begun |-> 0,
   logged |-> FALSE]

InitStateIds(c, n, seq, nw, ids) ==
  /\ cfg = c
  /\ now = 0
  /\ bcast = NoTimedHelper
  /\ callers = [tasks |-> n, sequential |-> seq]
  /\ crashed = "none"
  /\ taskId = ids
  /\ taskBlocking = [t \in Tasks |-> FALSE]
  /\ taskRespChan = [t \in Tasks |-> -1]
  /\ execStatus = [t \in Tasks |-> 0]
  /\ subpc = [t \in Tasks |-> "idle"]
  /\ subErr = [t \in Tasks |-> "none"]
  /\ subResp = [t \in Tasks |-> NilResponse]
  /\ subChan = [t \in Tasks |-> -1]
  /\ subWorker = [t \in Tasks |-> 0]
  /\ subNwt = [t \in Tasks |-> "r"]
  /\ subUpd = [t \in Tasks |-> ZeroWaitingTask]
  /\ waitingTasks = << >>
  /\ rObj = [t \in Tasks |-> ZeroWaitingTask]
  /\ hkpc = [t \in Tasks |-> "none"]
  /\ hkWt = [t \in Tasks |-> "r"]
  /\ hkUpd = [t \in Tasks |-> ZeroWaitingTask]
  /\ howManyLeft = [t \in Tasks |-> 0]
  /\ helpers = [t \in Tasks |-> 0]
  /\ entering = [t \in Tasks |-> 0]
  /\ cvWaiters = [w \in 1..nw |-> [pc |-> "sleep", sawLeft |-> 0]]
  /\ cvCalls = << >>
  /\ responseChannels = [i \in 0..(c.ChannelCount - 1) |-> << >>]
  /\ rcClosed = FALSE
  /\ tasksWaitingOnChn = [i \in 0..(c.ChannelCount - 1) |-> 0]
  /\ firstAvailable = 0
  /\ rcContinueRun = FALSE
  /\ muxOwner = 0
  /\ rpc = [i \in 0..(c.ChannelCount - 1) |-> "notstarted"]
  /\ rTr = [i \in 0..(c.ChannelCount - 1) |-> ZeroResponse]
  /\ rWt = [i \in 0..(c.ChannelCount - 1) |-> ZeroWaitingTask]
  /\ continueRun = [w \in WorkersOf(c) |-> FALSE]
  /\ taskQueue = [w \in WorkersOf(c) |-> << >>]
  /\ queueState = [w \in WorkersOf(c) |-> "nil"]
  /\ wpc = [w \in WorkersOf(c) |-> "notstarted"]
  /\ wTsk = [w \in WorkersOf(c) |-> 0]
  /\ stoppc = "idle"
  /\ JobStats = [TotalTasksSubmitted |-> 0, BlockingTasksSubmitted |-> 0,
                 AsyncTasksSubmitted |-> 0, TasksInExecution |-> 0]

\* Every task carries an id of its own.
InitState(c, n, seq, nw) == InitStateIds(c, n, seq, nw, [t \in Tasks |-> t])

\* The dispatcher and its parts, with nobody using a CondVar directly.
InitWith(c, n, seq) == InitState(c, n, seq, 0)

\* Any configuration; every task is submitted by a goroutine of its own.
Init == \E c \in Configs : InitWith(c, MaxTasks, FALSE)

\* Any configuration, with Dispatcher.Stop called at some point.
InitStop == \E c \in Configs : InitWith(c, MaxStopTasks, FALSE)

\* createCommonTestCfg with WaitForChanAvail = false, and one goroutine
\* making the Submit calls of TestExecutionServiceSubmissionFailure.
TestCfg ==
  [ChannelCount |-> 1, ChannelCapacity |-> 1, WaitForChanAvail |-> FALSE,
   WaitForAvailability |-> FALSE, TaskQueueCapacity |-> TaskQueueCapacity,
   AsyncTaskExecutorCount |-> AsyncTaskExecutorCount,
   BlockingTaskExecutorCount |-> BlockingTaskExecutorCount]

InitTest == InitWith(TestCfg, TestSubmits, TRUE)

\* A pool with several executors in each array, behind enough conduits for
\* the tasks to be in flight together.
PoolCfg ==
  [ChannelCount |-> MaxPoolTasks, ChannelCapacity |-> 1,
   WaitForChanAvail |-> FALSE, WaitForAvailability |-> FALSE,
   TaskQueueCapacity |-> TaskQueueCapacity,
   AsyncTaskExecutorCount |-> MaxExecutors,
   BlockingTaskExecutorCount |-> MaxExecutors]

InitPool == InitWith(PoolCfg, MaxPoolTasks, FALSE)

\* One executor made by NewExecutor and used directly, as the executor
\* tests do: every task brings a channel of its own, or none.
WorkerCfgs ==
  [ChannelCount : {MaxWorkerTasks}, ChannelCapacity : {1},
   WaitForChanAvail : {FALSE}, WaitForAvailability : BOOLEAN,
   TaskQueueCapacity : {WorkerQueueCapacity},
   AsyncTaskExecutorCount : {1}, BlockingTaskExecutorCount : {0}]

InitWorker == \E c \in WorkerCfgs : InitWith(c, MaxWorkerTasks, FALSE)

\* newRC(cc, cp, wfc, ...) for any conduit count and capacity, used by
\* callers that reserve a conduit and release it.
RcConfigs ==
  [ChannelCount : 1..MaxRcChannels, ChannelCapacity : 1..MaxRcCapacity,
   WaitForChanAvail : BOOLEAN, WaitForAvailability : {FALSE},
   TaskQueueCapacity : {TaskQueueCapacity},
   AsyncTaskExecutorCount : {AsyncTaskExecutorCount},
   BlockingTaskExecutorCount : {BlockingTaskExecutorCount}]

InitRC == \E c \in RcConfigs : InitWith(c, MaxRcTasks, FALSE)

\* TestCondVar_Broadcast: NewCondVar and two goroutines that will call Wait;
\* no dispatcher is involved.
InitCond == InitState(TestCfg, 0, TRUE, TestWaiters)

\* ------------------------------------------------------- responseChannels
next(i, cc) == IF i + 1 = cc THEN 0 ELSE i + 1

\* The for-loop of pickFromAvailChannels: it runs while !found and
\* i != rc.firstAvailable; min is set once before the loop and never updated.
RECURSIVE pickScan(_, _, _, _, _, _, _, _)
pickScan(w, fa, cc, cp, i, min, minIndex, found) ==
  IF ~found /\ i # fa
    THEN IF w[i] = 0
           THEN pickScan(w, fa, cc, cp, next(i, cc), min, minIndex, TRUE)
           ELSE IF w[i] < cp /\ w[i] < min
                  THEN pickScan(w, fa, cc, cp, next(i, cc), min, i, FALSE)
                  ELSE pickScan(w, fa, cc, cp, next(i, cc), min, minIndex, FALSE)
    ELSE [i |-> i, minIndex |-> minIndex, found |-> found]

\* A variant that never reports the conduit set as exhausted.
pickNeverExhausted(w, fa, cc, cp, avlIndex) ==
  LET i0 == next(avlIndex, cc)
      r == pickScan(w, fa, cc, cp, i0, w[i0], i0, FALSE)
  IN  [firstAvailable |-> r.minIndex,
       tasksWaitingOnChn |-> [w EXCEPT ![avlIndex] = w[avlIndex] + 1]]

\* A variant that counts the task on the conduit after the one handed out.
pickCountsNext(w, fa, cc, cp, avlIndex) ==
  LET i0 == next(avlIndex, cc)
      r == pickScan(w, fa, cc, cp, i0, w[i0], i0, FALSE)
  IN  [firstAvailable |-> IF r.i = fa /\ ~r.found THEN -1 ELSE r.minIndex,
       tasksWaitingOnChn |-> [w EXCEPT ![i0] = w[i0] + 1]]

\* pickFromAvailChannels(avlIndex) on counters w and firstAvailable fa, with
\* cc conduits of capacity cp: the new firstAvailable and counters.
pickFromAvailChannels(w, fa, cc, cp, avlIndex) ==
  LET i0 == next(avlIndex, cc)
      r == pickScan(w, fa, cc, cp, i0, w[i0], i0, FALSE)
  IN  [firstAvailable |-> IF r.i = fa /\ ~r.found THEN -1 ELSE r.minIndex,
       tasksWaitingOnChn |-> [w EXCEPT ![avlIndex] = w[avlIndex] + 1]]

\* A variant that decrements whatever the counter holds.
markAvailableUnclamped(w, fa, ai) ==
  [tasksWaitingOnChn |-> [w EXCEPT ![ai] = w[ai] - 1],
   firstAvailable |-> IF fa = -1 THEN ai ELSE fa]

\* markAvailable(ai), the part under rc.mux.  The chanAvail.Signal() that
\* follows wakes nobody: waitForAChannel never reaches chanAvail.Wait().
markAvailable(w, fa, ai) ==
  [tasksWaitingOnChn |-> [w EXCEPT ![ai] = IF w[ai] > 0 THEN w[ai] - 1 ELSE 0],
   firstAvailable |-> IF fa = -1 THEN ai ELSE fa]

\* ------------------------------------------------------------- TaskStats
\* A variant that counts every task as an asynchronous one.
taskSubmittedAsAsync(ts, blocking) ==
  [ts EXCEPT
     !.AsyncTasksSubmitted = @ + 1,
     !.TotalTasksSubmitted = @ + 1,
     !.TasksInExecution = @ + 1]

taskSubmitted(ts, blocking) ==
  [ts EXCEPT
     !.BlockingTasksSubmitted = IF blocking THEN @ + 1 ELSE @,
     !.AsyncTasksSubmitted = IF blocking THEN @ ELSE @ + 1,
     !.TotalTasksSubmitted = @ + 1,
     !.TasksInExecution = @ + 1]

taskDone(ts, blocking) == [ts EXCEPT !.TasksInExecution = @ - 1]

\* ---------------------------------------------------------- ExecutorPool
\* ExecutorPool.Submit's scan over one array: q[i] is HowManyInQueue() of
\* executor i, n the array length.  minEs is never updated, so the index
\* kept is the last i whose queue is shorter than executor 0's.
PoolIndex(q, n) ==
  LET shorter == {i \in 1..(n - 1) : q[i] < q[0]}
  IN  IF shorter = {} THEN 0
      ELSE CHOOSE i \in shorter : \A j \in shorter : j <= i

\* len(es.blockingExecutors) / len(es.asyncExecutors)
ExecutorCount(blocking) ==
  IF blocking THEN cfg.BlockingTaskExecutorCount ELSE cfg.AsyncTaskExecutorCount

\* A variant that hands every task to the async array.
ExecutorOfAsyncArray(blocking, index) == <<FALSE, index>>

\* es.blockingExecutors[index] for a blocking task, es.asyncExecutors[index]
\* otherwise.
Executor(blocking, index) == <<blocking, index>>

HowManyInQueue(w) == Len(taskQueue[w])

\* ------------------------------------------------------- local pointers
\* *nwt of submitTask and *wt of the housekeeper: the shared record r until
\* the goroutine re-reads the map into its own updatedWt.
SubNwt(t) == IF subNwt[t] = "r" THEN rObj[t] ELSE subUpd[t]

HkWt(t) == IF hkWt[t] = "r" THEN rObj[t] ELSE hkUpd[t]

\* goroutines inside cv.cond.Wait() of CondVar c, not yet notified
SubParkedOn(c) == {t \in Tasks : subpc[t] = "parked" /\ SubNwt(t).cond = c}

HkParkedOn(c) == {t \in Tasks : hkpc[t] = "parked" /\ HkWt(t).cond = c}

\* ncv of TestCondVar_Broadcast, among the CondVars of the model.
ncv == 1

CvParkedOn(c) ==
  {w \in DOMAIN cvWaiters : c = ncv /\ cvWaiters[w].pc = "parked"}

\* rc.chanAvail of the conduit set whose chanAvail is a *util.CondVar, among
\* the CondVars of the model (no waiting task has a CondVar there).
chanAvail == ncv

\* callers inside rc.chanAvail.Wait(), not yet notified
ChanParkedOn(c) == {t \in Tasks : c = chanAvail /\ subpc[t] = "chanParked"}

Running == crashed = "none"

\* Task t is the next one its caller hands to Submit.  Tasks are submitted
\* in the order of their numbers; a sequential caller makes the next call
\* only after the previous one returned.
NextCall(t) ==
  /\ subpc[t] = "idle"
  /\ t <= callers.tasks
  /\ \A u \in 1..(t - 1) :
       IF callers.sequential THEN subpc[u] = "done" ELSE subpc[u] # "idle"

\* ============================================================ Dispatcher
\* Dispatcher.Start: execPool.Start() (thread.Start for every executor:
\* make the queue, continueRun = true, go t.run()), then respChans.start()
\* (continueRun = true, one reader goroutine per conduit).  Each goroutine
\* passes its first loop test at once and blocks in its receive.
DispatcherStart ==
  /\ Running
  /\ stoppc = "idle"
  /\ \A w \in Workers : wpc[w] = "notstarted"
  /\ queueState' = [w \in Workers |-> "open"]
  /\ continueRun' = [w \in Workers |-> TRUE]
  /\ wpc' = [w \in Workers |-> "recv"]
  /\ rcContinueRun' = TRUE
  /\ rpc' = [i \in Chans |-> "recv"]
  /\ UNCHANGED <<cfg, callers, clockVars, cvTest, crashed, taskVars, subVars, wtVars, cvVars,
                 responseChannels, rcClosed, tasksWaitingOnChn, firstAvailable,
                 muxOwner, rTr, rWt, taskQueue, wTsk, stoppc, JobStats>>

\* Dispatcher.Submit(nil): "invalid task".
SubmitNil(t) ==
  /\ Running
  /\ NextCall(t)
  /\ subpc' = [subpc EXCEPT ![t] = "done"]
  /\ subErr' = [subErr EXCEPT ![t] = "invalid task"]
  /\ UNCHANGED <<cfg, callers, clockVars, cvTest, crashed, taskVars, subResp, subChan, subWorker, subNwt,
                 subUpd, wtVars, cvVars, rcVars, thrVars, stoppc, JobStats>>

\* A variant that counts a waiter on conduit 0 also when it returns none.
nextAvailChanIndexCountsAnyway(t) ==
  IF firstAvailable > -1
    THEN LET p == pickFromAvailChannels(tasksWaitingOnChn, firstAvailable,
                    cfg.ChannelCount, cfg.ChannelCapacity, firstAvailable)
         IN  [index |-> firstAvailable, chan |-> firstAvailable,
              tasksWaitingOnChn |-> p.tasksWaitingOnChn,
              firstAvailable |-> p.firstAvailable, mux |-> 0, returns |-> TRUE]
    ELSE [index |-> -1, chan |-> -1,
          tasksWaitingOnChn |-> [tasksWaitingOnChn EXCEPT ![0] = @ + 1],
          firstAvailable |-> firstAvailable,
          mux |-> IF cfg.WaitForChanAvail THEN t ELSE 0,
          returns |-> ~cfg.WaitForChanAvail]

\* responseChannels.nextAvailChanIndex, called by caller t.  The result is
\* what the call leaves behind: the index and conduit returned (chan = -1 is
\* a nil conduit), the counters, and who holds rc.mux afterwards.  With
\* firstAvailable = -1 and waitForChannel set it calls waitForAChannel, whose
\* first statement locks rc.mux again while the caller still holds it: the
\* caller stops there and rc.mux stays locked.
nextAvailChanIndex(t) ==
  IF firstAvailable > -1
    THEN LET p == pickFromAvailChannels(tasksWaitingOnChn, firstAvailable,
                    cfg.ChannelCount, cfg.ChannelCapacity, firstAvailable)
         IN  [index |-> firstAvailable, chan |-> firstAvailable,
              tasksWaitingOnChn |-> p.tasksWaitingOnChn,
              firstAvailable |-> p.firstAvailable, mux |-> 0, returns |-> TRUE]
    ELSE [index |-> -1, chan |-> -1,
          tasksWaitingOnChn |-> tasksWaitingOnChn,
          firstAvailable |-> firstAvailable,
          mux |-> IF cfg.WaitForChanAvail THEN t ELSE 0,
          returns |-> ~cfg.WaitForChanAvail]

\* Dispatcher.Submit(tsk) up to the return of nextAvailChanIndex; with no
\* conduit it returns "cannot submit, no channel available".
SubmitTask(t, blocking) ==
  /\ Running
  /\ NextCall(t)
  /\ muxOwner = 0
  /\ LET n == nextAvailChanIndex(t) IN
       /\ taskBlocking' = [taskBlocking EXCEPT ![t] = blocking]
       /\ tasksWaitingOnChn' = n.tasksWaitingOnChn
       /\ firstAvailable' = n.firstAvailable
       /\ muxOwner' = n.mux
       /\ subChan' = [subChan EXCEPT ![t] = n.index]
       /\ subpc' = [subpc EXCEPT ![t] =
            IF ~n.returns THEN "lockedout"
            ELSE IF n.chan = -1 THEN "done" ELSE "reserved"]
       /\ subErr' = [subErr EXCEPT ![t] =
            IF n.returns /\ n.chan = -1
              THEN "cannot submit, no channel available" ELSE @]
  /\ UNCHANGED <<cfg, callers, clockVars, cvTest, crashed, taskId, taskRespChan, execStatus, subResp,
                 subWorker, subNwt, subUpd, wtVars, cvVars, responseChannels,
                 rcClosed, rcContinueRun, rpc, rTr, rWt, thrVars, stoppc,
                 JobStats>>

\* A variant that sets the conduit in the task and registers nothing.
addNoWaitingTask(t) ==
  /\ Running
  /\ subpc[t] = "reserved"
  /\ taskRespChan' = [taskRespChan EXCEPT ![t] = subChan[t]]
  /\ subpc' = [subpc EXCEPT ![t] = "registered"]
  /\ UNCHANGED <<cfg, callers, clockVars, cvTest, crashed, taskId, taskBlocking, execStatus, subErr,
                 subResp, subChan, subWorker, subNwt, subUpd, wtVars,
                 cvVars, rcVars, thrVars, stoppc, JobStats>>

\* tsk.SetRespChan(ai); addNewWaitingTask(disp, i, tsk): the new record r,
\* the map entry (a copy of r) and the housekeeping goroutine.
addNewWaitingTask(t) ==
  /\ Running
  /\ subpc[t] = "reserved"
  /\ taskRespChan' = [taskRespChan EXCEPT ![t] = subChan[t]]
  /\ LET r == [ZeroWaitingTask EXCEPT !.blocking = taskBlocking[t], !.cond = t]
     IN  /\ rObj' = [rObj EXCEPT ![t] = r]
         /\ waitingTasks' = MapPut(waitingTasks, taskId[t], r)
  /\ hkpc' = [hkpc EXCEPT ![t] = "wait"]
  /\ subpc' = [subpc EXCEPT ![t] = "registered"]
  /\ UNCHANGED <<cfg, callers, clockVars, cvTest, crashed, taskId, taskBlocking, execStatus, subErr,
                 subResp, subChan, subWorker, subNwt, subUpd, hkWt, hkUpd,
                 cvVars, rcVars, thrVars, stoppc, JobStats>>

\* A variant that takes a thread for running once it was started.
IsRunningOnceStarted(w) == queueState[w] # "nil"

\* thread.IsRunning / the test of thread.Submit's first statement
IsRunning(w) == continueRun[w]

\* A variant that lets one task too many in.
HasRoomForOneMore(w) == HowManyInQueue(w) <= cfg.TaskQueueCapacity

\* t.HowManyInQueue() < t.queueCapacity
HasRoom(w) == HowManyInQueue(w) < cfg.TaskQueueCapacity

\* A variant of the receive that takes the task queued last.
QueueRecvNewest(q) == [tsk |-> q[Len(q)], rest |-> SubSeq(q, 1, Len(q) - 1)]

\* tsk := <-t.taskQueue on a queue that holds tasks: the oldest one is
\* taken off the channel.
QueueRecv(q) == [tsk |-> Head(q), rest |-> Tail(q)]

\* A variant that takes every task to have a conduit.
HasRespChanAlways(t) == TRUE

\* rspChan != nil for the task's GetRespChan()
HasRespChan(t) == taskRespChan[t] # -1

\* submitTask's error branch: nwt.taskResponse = *FailedToSubmitResponse(id)
\* is a write to r, not to the map entry, and sets no responseReceived; then
\* submitTask and Submit return the error (no taskSubmitted).
SubmitFailed(t, err) ==
  /\ rObj' = [rObj EXCEPT ![t].taskResponse = FailedToSubmitResponse(taskId[t])]
  /\ subErr' = [subErr EXCEPT ![t] = err]
  /\ subpc' = [subpc EXCEPT ![t] = "done"]

\* thread.Submit returns err to a caller that used the executor directly.
DirectSubmitFailed(t, err) ==
  /\ subErr' = [subErr EXCEPT ![t] = err]
  /\ subpc' = [subpc EXCEPT ![t] = "done"]
  /\ UNCHANGED rObj

\* ExecutorPool.Submit picks the executor; thread.Submit's first statement
\* reads continueRun and fails with "executor is not started".
PoolSubmit(t) ==
  /\ Running
  /\ subpc[t] = "registered"
  /\ LET b == taskBlocking[t]
         q == [i \in 0..(ExecutorCount(b) - 1) |-> HowManyInQueue(Executor(b, i))]
         index == PoolIndex(q, ExecutorCount(b))
     IN  /\ subWorker' = [subWorker EXCEPT ![t] = index]
         /\ IF IsRunning(Executor(b, index))
              THEN /\ subpc' = [subpc EXCEPT ![t] = "enqueue"]
                   /\ UNCHANGED <<rObj, subErr>>
              ELSE SubmitFailed(t, "executor is not started")
  /\ UNCHANGED <<cfg, callers, clockVars, cvTest, crashed, taskVars, subResp, subChan, subNwt, subUpd,
                 waitingTasks, hkpc, hkWt, hkUpd, cvVars, rcVars, thrVars,
                 stoppc, JobStats>>

\* A variant that waits for the response whatever the task's kind.
AfterEnqueueAlwaysWaits(blocking) == "wait"

\* submitTask after execPool.Submit returned nil: if tsk.IsBlocking() the
\* caller enters the wait loop, otherwise it returns at once.
AfterEnqueue(blocking) == IF blocking THEN "wait" ELSE "return"

\* The rest of thread.Submit, for a caller that came through the pool
\* ("enqueue") or used the executor directly ("enqueueDirect").
\* waitForAvailability: the send blocks while
\* the queue is full.  Otherwise, under t.mux: send if HowManyInQueue() is
\* below queueCapacity, else the queue-full error.  A send on a queue that
\* Stop has closed panics.
ThreadEnqueue(t) ==
  /\ Running
  /\ subpc[t] \in {"enqueue", "enqueueDirect"}
  /\ LET w == Executor(taskBlocking[t], subWorker[t])
         room == HasRoom(w)
     IN  /\ cfg.WaitForAvailability => (room \/ queueState[w] = "closed")
         /\ IF room \/ cfg.WaitForAvailability
              THEN IF queueState[w] = "closed"
                     THEN /\ crashed' = "send on closed task queue"
                          /\ UNCHANGED <<taskQueue, subpc, subErr, rObj>>
                     ELSE /\ taskQueue' = [taskQueue EXCEPT ![w] = Append(@, t)]
                          /\ subpc' = [subpc EXCEPT ![t] =
                               IF subpc[t] = "enqueueDirect" THEN "done"
                               ELSE AfterEnqueue(taskBlocking[t])]
                          /\ UNCHANGED <<crashed, subErr, rObj>>
              ELSE /\ IF subpc[t] = "enqueueDirect"
                        THEN DirectSubmitFailed(t,
                               "cannot submit, executor already has accepted maximum number of tasks")
                        ELSE SubmitFailed(t,
                               "cannot submit, executor already has accepted maximum number of tasks")
                   /\ UNCHANGED <<crashed, taskQueue>>
  /\ UNCHANGED <<cfg, callers, clockVars, cvTest, taskVars, subResp, subChan, subWorker, subNwt, subUpd,
                 waitingTasks, hkpc, hkWt, hkUpd, cvVars, rcVars, continueRun,
                 queueState, wpc, wTsk, stoppc, JobStats>>

\* CondVar.Wait up to parking: cv.Lock(); cond.Wait() adds the caller to the
\* notify list and unlocks.  A nil CondVar is a nil dereference.
WaitEnter(cond) == IF cond = 0 THEN "crash" ELSE "parked"

\* blocking caller: for !nwt.responseReceived { nwt.cond.Wait() ...
SubWaitEnter(t) ==
  /\ Running
  /\ subpc[t] = "wait"
  /\ IF WaitEnter(SubNwt(t).cond) = "crash"
       THEN /\ crashed' = "nil CondVar in submitTask"
            /\ UNCHANGED subpc
       ELSE /\ subpc' = [subpc EXCEPT ![t] = "parked"]
            /\ UNCHANGED crashed
  /\ UNCHANGED <<cfg, callers, clockVars, cvTest, taskVars, subErr, subResp, subChan, subWorker, subNwt,
                 subUpd, wtVars, cvVars, rcVars, thrVars, stoppc, JobStats>>

\* A variant that gives no receipt.
WaitExitNoReceipt(hml, cond) == hml

\* CondVar.Wait after the wake-up: relock, howManyLeft--, unlock.
WaitExit(hml, cond) == [hml EXCEPT ![cond] = @ - 1]

\* The caller wakes in nwt.cond.Wait() and takes the updated copy:
\* updatedWt = disp.waitingTasks[tsk.GetId()]; nwt = &updatedWt; loop test.
SubWake(t) ==
  /\ Running
  /\ subpc[t] = "woken"
  /\ howManyLeft' = WaitExit(howManyLeft, SubNwt(t).cond)
  /\ LET updatedWt == MapGet(waitingTasks, taskId[t]) IN
       /\ subUpd' = [subUpd EXCEPT ![t] = updatedWt]
       /\ subNwt' = [subNwt EXCEPT ![t] = "upd"]
       /\ subpc' = [subpc EXCEPT ![t] =
            IF updatedWt.responseReceived THEN "return" ELSE "wait"]
  /\ UNCHANGED <<cfg, callers, clockVars, cvTest, crashed, taskVars, subErr, subResp, subChan, subWorker,
                 wtVars, helpers, entering, rcVars, thrVars, stoppc, JobStats>>

\* submitTask returns (nil, resp) with resp = &nwt.taskResponse for a
\* blocking task and nil otherwise; Submit then calls taskSubmitted.
SubmitReturn(t) ==
  /\ Running
  /\ subpc[t] = "return"
  /\ subResp' = [subResp EXCEPT ![t] =
       IF taskBlocking[t] THEN SubNwt(t).taskResponse ELSE NilResponse]
  /\ JobStats' = taskSubmitted(JobStats, taskBlocking[t])
  /\ subpc' = [subpc EXCEPT ![t] = "done"]
  /\ subNwt' = [subNwt EXCEPT ![t] = "r"]
  /\ subUpd' = [subUpd EXCEPT ![t] = ZeroWaitingTask]
  /\ UNCHANGED <<cfg, callers, clockVars, cvTest, crashed, taskVars, subErr, subChan, subWorker, wtVars,
                 cvVars, rcVars, thrVars, stoppc>>

\* ============================================= housekeeping goroutine
\* A variant of the housekeeper that does not wait for the result.
HkSkipsWait(t) ==
  /\ Running
  /\ hkpc[t] = "wait"
  /\ hkpc' = [hkpc EXCEPT ![t] = "delete"]
  /\ UNCHANGED <<cfg, callers, clockVars, cvTest, crashed, taskVars, subVars, waitingTasks, rObj, hkWt, hkUpd,
                 cvVars, rcVars, thrVars, stoppc, JobStats>>

\* for !wt.responseReceived { wt.cond.Wait() ...
HkWaitEnter(t) ==
  /\ Running
  /\ hkpc[t] = "wait"
  /\ IF WaitEnter(HkWt(t).cond) = "crash"
       THEN /\ crashed' = "nil CondVar in housekeeper"
            /\ UNCHANGED hkpc
       ELSE /\ hkpc' = [hkpc EXCEPT ![t] = "parked"]
            /\ UNCHANGED crashed
  /\ UNCHANGED <<cfg, callers, clockVars, cvTest, taskVars, subVars, waitingTasks, rObj, hkWt, hkUpd,
                 cvVars, rcVars, thrVars, stoppc, JobStats>>

\* The housekeeper wakes in wt.cond.Wait() and reads back from the map:
\* updatedWt = disp.waitingTasks[tsk.GetId()]; wt = &updatedWt; loop test.
HkWake(t) ==
  /\ Running
  /\ hkpc[t] = "woken"
  /\ howManyLeft' = WaitExit(howManyLeft, HkWt(t).cond)
  /\ LET updatedWt == MapGet(waitingTasks, taskId[t]) IN
       /\ hkUpd' = [hkUpd EXCEPT ![t] = updatedWt]
       /\ hkWt' = [hkWt EXCEPT ![t] = "upd"]
       /\ hkpc' = [hkpc EXCEPT ![t] =
            IF updatedWt.responseReceived THEN "delete" ELSE "wait"]
  /\ UNCHANGED <<cfg, callers, clockVars, cvTest, crashed, taskVars, subVars, waitingTasks, rObj, helpers, entering,
                 rcVars, thrVars, stoppc, JobStats>>

\* tr := wt.taskResponse; delete(disp.waitingTasks, tr.TaskId)
HkDelete(t) ==
  /\ Running
  /\ hkpc[t] = "delete"
  /\ waitingTasks' = MapDelete(waitingTasks, HkWt(t).taskResponse.TaskId)
  /\ hkpc' = [hkpc EXCEPT ![t] = "markAvailable"]
  /\ UNCHANGED <<cfg, callers, clockVars, cvTest, crashed, taskVars, subVars, rObj, hkWt, hkUpd, cvVars,
                 rcVars, thrVars, stoppc, JobStats>>

\* disp.respChans.markAvailable(chanIndex)
HkMarkAvailable(t) ==
  /\ Running
  /\ hkpc[t] = "markAvailable"
  /\ muxOwner = 0
  /\ LET m == markAvailable(tasksWaitingOnChn, firstAvailable, subChan[t]) IN
       /\ tasksWaitingOnChn' = m.tasksWaitingOnChn
       /\ firstAvailable' = m.firstAvailable
  /\ hkpc' = [hkpc EXCEPT ![t] = "taskDone"]
  /\ UNCHANGED <<cfg, callers, clockVars, cvTest, crashed, taskVars, subVars, waitingTasks, rObj, hkWt,
                 hkUpd, cvVars, responseChannels, rcClosed, rcContinueRun,
                 muxOwner, rpc, rTr, rWt, thrVars, stoppc, JobStats>>

\* disp.JobStats.taskDone(wt.blocking); the goroutine ends.
HkTaskDone(t) ==
  /\ Running
  /\ hkpc[t] = "taskDone"
  /\ JobStats' = taskDone(JobStats, HkWt(t).blocking)
  /\ hkpc' = [hkpc EXCEPT ![t] = "finished"]
  /\ hkWt' = [hkWt EXCEPT ![t] = "r"]
  /\ hkUpd' = [hkUpd EXCEPT ![t] = ZeroWaitingTask]
  /\ UNCHANGED <<cfg, callers, clockVars, cvTest, crashed, taskVars, subVars, waitingTasks, rObj, cvVars,
                 rcVars, thrVars, stoppc>>

\* ======================================================= conduit readers
\* tr = <-rci: a buffered response, or the zero value of a closed conduit.
RdRecv(i) ==
  /\ Running
  /\ rpc[i] = "recv"
  /\ responseChannels[i] # << >> \/ rcClosed
  /\ IF responseChannels[i] # << >>
       THEN /\ rTr' = [rTr EXCEPT ![i] = Head(responseChannels[i])]
            /\ responseChannels' = [responseChannels EXCEPT ![i] = Tail(@)]
       ELSE /\ rTr' = [rTr EXCEPT ![i] = ZeroResponse]
            /\ UNCHANGED responseChannels
  /\ rpc' = [rpc EXCEPT ![i] = "lookup"]
  /\ UNCHANGED <<cfg, callers, clockVars, cvTest, crashed, taskVars, subVars, wtVars, cvVars, rcClosed,
                 tasksWaitingOnChn, firstAvailable, rcContinueRun, muxOwner,
                 rWt, thrVars, stoppc, JobStats>>

\* A variant of the reader that sets the flag and drops the response.
RdLookupDropsResponse(i) ==
  /\ Running
  /\ rpc[i] = "lookup"
  /\ rWt' = [rWt EXCEPT ![i] =
       [MapGet(waitingTasks, rTr[i].TaskId) EXCEPT !.responseReceived = TRUE]]
  /\ rpc' = [rpc EXCEPT ![i] = "store"]
  /\ UNCHANGED <<cfg, callers, clockVars, cvTest, crashed, taskVars, subVars, wtVars, cvVars,
                 responseChannels, rcClosed, tasksWaitingOnChn, firstAvailable,
                 rcContinueRun, muxOwner, rTr, thrVars, stoppc, JobStats>>

\* wt = (*rc.waitingTasksInDispatcher)[tr.TaskId]; wt.taskResponse = tr;
\* wt.responseReceived = true  (on the reader's copy)
RdLookup(i) ==
  /\ Running
  /\ rpc[i] = "lookup"
  /\ rWt' = [rWt EXCEPT ![i] =
       [MapGet(waitingTasks, rTr[i].TaskId) EXCEPT
          !.taskResponse = rTr[i], !.responseReceived = TRUE]]
  /\ rpc' = [rpc EXCEPT ![i] = "store"]
  /\ UNCHANGED <<cfg, callers, clockVars, cvTest, crashed, taskVars, subVars, wtVars, cvVars,
                 responseChannels, rcClosed, tasksWaitingOnChn, firstAvailable,
                 rcContinueRun, muxOwner, rTr, thrVars, stoppc, JobStats>>

\* (*rc.waitingTasksInDispatcher)[tr.TaskId] = wt
RdStore(i) ==
  /\ Running
  /\ rpc[i] = "store"
  /\ waitingTasks' = MapPut(waitingTasks, rTr[i].TaskId, rWt[i])
  /\ rpc' = [rpc EXCEPT ![i] = "broadcast"]
  /\ UNCHANGED <<cfg, callers, clockVars, cvTest, crashed, taskVars, subVars, rObj, hkpc, hkWt, hkUpd,
                 cvVars, responseChannels, rcClosed, tasksWaitingOnChn,
                 firstAvailable, rcContinueRun, muxOwner, rTr, rWt, thrVars,
                 stoppc, JobStats>>

\* A variant without the test of howManyLeft.
BroadcastOverwrites(hml, h, e, cond, r) ==
  [howManyLeft |-> [hml EXCEPT ![cond] = r],
   helpers |-> [h EXCEPT ![cond] = @ + 1],
   entering |-> [e EXCEPT ![cond] = @ + 1],
   err |-> "none"]

\* CondVar.Broadcast(r) on howManyLeft hml and helper counts h, e of CondVar
\* cond: refused while howManyLeft > 0, else howManyLeft = r and a
\* broadcast(cv) helper is spawned.
Broadcast(hml, h, e, cond, r) ==
  IF hml[cond] > 0
    THEN [howManyLeft |-> hml, helpers |-> h, entering |-> e,
          err |-> "earlier broadcast not complete"]
    ELSE [howManyLeft |-> [hml EXCEPT ![cond] = r],
          helpers |-> [h EXCEPT ![cond] = @ + 1],
          entering |-> [e EXCEPT ![cond] = @ + 1],
          err |-> "none"]

\* if wt.blocking { wt.cond.Broadcast(2) } else { wt.cond.Broadcast(1) }
Receipts(wt) == IF wt.blocking THEN 2 ELSE 1

\* The Broadcast call, then the loop test for rc.continueRun.
RdBroadcast(i) ==
  /\ Running
  /\ rpc[i] = "broadcast"
  /\ IF rWt[i].cond = 0
       THEN /\ crashed' = "nil CondVar in reader"
            /\ UNCHANGED <<howManyLeft, helpers, entering, rpc, rTr, rWt>>
       ELSE /\ LET b == Broadcast(howManyLeft, helpers, entering, rWt[i].cond,
                                  Receipts(rWt[i]))
               IN  /\ howManyLeft' = b.howManyLeft
                   /\ helpers' = b.helpers
                   /\ entering' = b.entering
            /\ rpc' = [rpc EXCEPT ![i] =
                 IF rcContinueRun THEN "recv" ELSE "exited"]
            /\ rTr' = [rTr EXCEPT ![i] = ZeroResponse]
            /\ rWt' = [rWt EXCEPT ![i] = ZeroWaitingTask]
            /\ UNCHANGED crashed
  /\ UNCHANGED <<cfg, callers, clockVars, cvTest, taskVars, subVars, wtVars, responseChannels, rcClosed,
                 tasksWaitingOnChn, firstAvailable, rcContinueRun, muxOwner,
                 thrVars, stoppc, JobStats>>

\* ===================================================== broadcast(cv)
\* cv.cond.Broadcast() of sync.Cond: every goroutine parked on c is woken.
CondBroadcast(c) ==
  /\ subpc' = [t \in Tasks |->
       IF t \in SubParkedOn(c) THEN "woken"
       ELSE IF t \in ChanParkedOn(c) THEN "chanWoken" ELSE subpc[t]]
  /\ hkpc' = [t \in Tasks |->
       IF t \in HkParkedOn(c) THEN "woken" ELSE hkpc[t]]
  /\ cvWaiters' = [w \in DOMAIN cvWaiters |->
       IF w \in CvParkedOn(c) THEN [cvWaiters[w] EXCEPT !.pc = "woken"]
       ELSE cvWaiters[w]]

\* The helper's first pass.  The loop test follows the reading of start
\* directly: howManyLeft was just set to r > 0 and no time has gone by, so
\* the helper broadcasts at least once, whoever is parked by then.
HelperFirstPass(c) ==
  /\ Running
  /\ entering[c] > 0
  /\ entering' = [entering EXCEPT ![c] = @ - 1]
  /\ IF howManyLeft[c] > 0
       THEN CondBroadcast(c)
       ELSE UNCHANGED <<subpc, hkpc, cvWaiters>>
  /\ UNCHANGED <<cfg, callers, clockVars, cvCalls, crashed, taskVars, subErr, subResp, subChan, subWorker,
                 subNwt, subUpd, waitingTasks, rObj, hkWt, hkUpd, howManyLeft,
                 helpers, rcVars, thrVars, stoppc, JobStats>>

\* A later pass, after the sleep of gapInterval, while howManyLeft > 0 and
\* the duration limit has not elapsed.  (A pass that finds nobody parked
\* changes nothing.)
HelperBroadcast(c) ==
  /\ Running
  /\ helpers[c] > entering[c]
  /\ howManyLeft[c] > 0
  /\ SubParkedOn(c) \cup HkParkedOn(c) \cup CvParkedOn(c) \cup ChanParkedOn(c) # {}
  /\ CondBroadcast(c)
  /\ UNCHANGED <<cfg, callers, clockVars, cvCalls, crashed, taskVars, subErr, subResp, subChan, subWorker,
                 subNwt, subUpd, waitingTasks, rObj, hkWt, hkUpd, cvVars,
                 rcVars, thrVars, stoppc, JobStats>>

\* The helper leaves its loop: howManyLeft reached 0, or durationLimit
\* elapsed (time is not modelled: after the first pass the limit may have
\* elapsed at any loop test).
HelperExit(c) ==
  /\ Running
  /\ helpers[c] > entering[c]
  /\ helpers' = [helpers EXCEPT ![c] = @ - 1]
  /\ UNCHANGED <<cfg, callers, clockVars, cvTest, crashed, taskVars, subVars, wtVars, howManyLeft,
                 entering, rcVars, thrVars, stoppc, JobStats>>

\* ====================================================== thread.run
\* tsk := <-t.taskQueue.  nil from a closed queue, or a task without a
\* response conduit, is logged and skipped and the loop tests continueRun;
\* otherwise tsk.Execute() begins.
WRecv(w) ==
  /\ Running
  /\ wpc[w] = "recv"
  /\ taskQueue[w] # << >> \/ queueState[w] = "closed"
  /\ IF taskQueue[w] # << >>
       THEN /\ taskQueue' = [taskQueue EXCEPT ![w] = QueueRecv(@).rest]
            /\ IF HasRespChan(QueueRecv(taskQueue[w]).tsk)
                 THEN /\ wTsk' = [wTsk EXCEPT ![w] = QueueRecv(taskQueue[w]).tsk]
                      /\ wpc' = [wpc EXCEPT ![w] = "execute"]
                 ELSE /\ wpc' = [wpc EXCEPT ![w] =
                           IF continueRun[w] THEN "recv" ELSE "exited"]
                      /\ UNCHANGED wTsk
       ELSE /\ wpc' = [wpc EXCEPT ![w] =
                 IF continueRun[w] THEN "recv" ELSE "exited"]
            /\ UNCHANGED <<taskQueue, wTsk>>
  /\ UNCHANGED <<cfg, callers, clockVars, cvTest, crashed, taskVars, subVars, wtVars, cvVars, rcVars,
                 continueRun, queueState, stoppc, JobStats>>

\* The responses tsk.Execute() may return for task t.  Execute is the
\* caller's code: odd tasks complete successfully and even tasks fail (no
\* code of the package branches on the status), and Execute may or may not
\* have set the TaskId.
Execute(t) ==
  {[TaskId |-> tid,
    Status |-> IF t % 2 = 1 THEN TaskStatusCompletedSuccessfully
               ELSE TaskStatusCompletedFailed] : tid \in {0, taskId[t]}}

\* A variant that publishes the response as Execute returned it.
PublishedAsReturned(t, resp) == resp

\* What thread.run publishes for task t when Execute returned resp:
\* resp.TaskId = tsk.GetId()
Published(t, resp) == [resp EXCEPT !.TaskId = taskId[t]]

\* Execute returns; rspChan <- resp blocks for ever on a nil conduit, blocks
\* while the conduit's buffer is full and panics on a conduit that responseChannels.stop has closed; then
\* the loop tests continueRun.
WPublish(w) ==
  /\ Running
  /\ wpc[w] = "execute"
  /\ LET ch == taskRespChan[wTsk[w]] IN
       /\ ch # -1
       /\ rcClosed \/ Len(responseChannels[ch]) < cfg.ChannelCapacity
       /\ IF rcClosed
            THEN /\ crashed' = "send on closed response channel"
                 /\ UNCHANGED <<responseChannels, wpc, wTsk, execStatus>>
            ELSE /\ \E resp \in Execute(wTsk[w]) :
                      /\ execStatus' = [execStatus EXCEPT ![wTsk[w]] = resp.Status]
                      /\ responseChannels' =
                           [responseChannels EXCEPT ![ch] =
                              Append(@, Published(wTsk[w], resp))]
                 /\ wpc' = [wpc EXCEPT ![w] =
                      IF continueRun[w] THEN "recv" ELSE "exited"]
                 /\ wTsk' = [wTsk EXCEPT ![w] = 0]
                 /\ UNCHANGED crashed
  /\ UNCHANGED <<cfg, callers, clockVars, cvTest, taskId, taskBlocking, taskRespChan, subVars, wtVars,
                 cvVars, rcClosed, tasksWaitingOnChn, firstAvailable,
                 rcContinueRun, muxOwner, rpc, rTr, rWt, continueRun,
                 taskQueue, queueState, stoppc, JobStats>>

\* ===================================================== Dispatcher.Stop
\* disp.execPool.Stop(): thread.Stop on every executor: continueRun = false
\* and close(t.taskQueue); closing the nil queue of a thread that was never
\* started panics.
StopPool ==
  /\ Running
  /\ stoppc = "idle"
  /\ IF \E w \in Workers : queueState[w] # "open"
       THEN /\ crashed' = "close of nil channel"
            /\ UNCHANGED <<continueRun, queueState, stoppc>>
       ELSE /\ continueRun' = [w \in Workers |-> FALSE]
            /\ queueState' = [w \in Workers |-> "closed"]
            /\ stoppc' = "respChans"
            /\ UNCHANGED crashed
  /\ UNCHANGED <<cfg, callers, clockVars, cvTest, taskVars, subVars, wtVars, cvVars, rcVars, taskQueue,
                 wpc, wTsk, JobStats>>

\* disp.respChans.stop(): continueRun = false, close every conduit.
StopRespChans ==
  /\ Running
  /\ stoppc = "respChans"
  /\ rcContinueRun' = FALSE
  /\ rcClosed' = TRUE
  /\ stoppc' = "done"
  /\ UNCHANGED <<cfg, callers, clockVars, cvTest, crashed, taskVars, subVars, wtVars, cvVars,
                 responseChannels, tasksWaitingOnChn, firstAvailable, muxOwner,
                 rpc, rTr, rWt, thrVars, JobStats>>

\* A second Dispatcher.Stop after the first one returned: execPool.Stop()
\* reaches thread.Stop of the first executor, whose close(t.taskQueue) finds
\* the queue already closed and panics.
StopAgain ==
  /\ Running
  /\ stoppc = "done"
  /\ crashed' = "close of closed channel"
  /\ UNCHANGED <<cfg, callers, clockVars, cvTest, taskVars, subVars, wtVars, cvVars, rcVars, thrVars,
                 stoppc, JobStats>>

\* ============================================== An executor used directly
\* thread.Start on an executor made by NewExecutor: make the queue,
\* continueRun = true, go t.run().  Start is called once, before any Stop.
ThreadStart(w) ==
  /\ Running
  /\ queueState[w] = "nil"
  /\ queueState' = [queueState EXCEPT ![w] = "open"]
  /\ continueRun' = [continueRun EXCEPT ![w] = TRUE]
  /\ wpc' = [wpc EXCEPT ![w] = "recv"]
  /\ UNCHANGED <<cfg, callers, clockVars, cvTest, crashed, taskVars, subVars, wtVars, cvVars, rcVars,
                 taskQueue, wTsk, stoppc, JobStats>>

\* thread.Stop: continueRun = false, then close(t.taskQueue), which panics
\* on the nil queue of a thread never started and on a queue already closed.
ThreadStop(w) ==
  /\ Running
  /\ continueRun' = [continueRun EXCEPT ![w] = FALSE]
  /\ IF queueState[w] = "open"
       THEN /\ queueState' = [queueState EXCEPT ![w] = "closed"]
            /\ UNCHANGED crashed
       ELSE /\ crashed' = IF queueState[w] = "nil" THEN "close of nil channel"
                          ELSE "close of closed channel"
            /\ UNCHANGED queueState
  /\ UNCHANGED <<cfg, callers, clockVars, cvTest, taskVars, subVars, wtVars, cvVars, rcVars, taskQueue,
                 wpc, wTsk, stoppc, JobStats>>

\* The caller of the executor tests: task.SetRespChan(ch) with a channel
\* made for this task (ch = -1: no SetRespChan, the conduit stays nil),
\* then thread.Submit up to its first statement, the test of continueRun.
DirectSubmit(t, ch) ==
  /\ Running
  /\ NextCall(t)
  /\ ch \in {-1, t - 1} /\ (ch = -1 \/ ch \in Chans)
  /\ taskRespChan' = [taskRespChan EXCEPT ![t] = ch]
  /\ IF IsRunning(Executor(taskBlocking[t], subWorker[t]))
       THEN /\ subpc' = [subpc EXCEPT ![t] = "enqueueDirect"]
            /\ UNCHANGED <<subErr, rObj>>
       ELSE DirectSubmitFailed(t, "executor is not started")
  /\ UNCHANGED <<cfg, callers, clockVars, cvTest, crashed, taskId, taskBlocking, execStatus, subResp,
                 subChan, subWorker, subNwt, subUpd, waitingTasks, hkpc, hkWt,
                 hkUpd, cvVars, rcVars, thrVars, stoppc, JobStats>>

\* waitForResponse: rsp := <-ch on the channel made for one task.
DirectReceive(i) ==
  /\ Running
  /\ responseChannels[i] # << >>
  /\ responseChannels' = [responseChannels EXCEPT ![i] = Tail(@)]
  /\ UNCHANGED <<cfg, callers, clockVars, cvTest, crashed, taskVars, subVars, wtVars, cvVars, rcClosed,
                 tasksWaitingOnChn, firstAvailable, rcContinueRun, muxOwner,
                 rpc, rTr, rWt, thrVars, stoppc, JobStats>>

\* ============================================ A CondVar used directly
\* The arguments of the Broadcast calls of TestCondVar_Broadcast, in order.
TestBroadcasts == <<2, 1>>

\* waitInGoRoutine after its sleep: n.Wait() up to cv.cond.Wait(), which
\* puts the goroutine on the notify list and releases the lock.
CvWait(w) ==
  /\ Running
  /\ cvWaiters[w].pc = "sleep"
  /\ cvWaiters' = [cvWaiters EXCEPT ![w] =
       [pc |-> WaitEnter(ncv), sawLeft |-> howManyLeft[ncv]]]
  /\ UNCHANGED <<cfg, callers, clockVars, cvCalls, crashed, taskVars, subVars, wtVars, cvVars,
                 rcVars, thrVars, stoppc, JobStats>>

\* The rest of Wait once woken: howManyLeft--, unlock; the goroutine ends.
CvWaitReturn(w) ==
  /\ Running
  /\ cvWaiters[w].pc = "woken"
  /\ howManyLeft' = WaitExit(howManyLeft, ncv)
  /\ cvWaiters' = [cvWaiters EXCEPT ![w].pc = "done"]
  /\ UNCHANGED <<cfg, callers, clockVars, cvCalls, crashed, taskVars, subVars, wtVars, helpers,
                 entering, rcVars, thrVars, stoppc, JobStats>>

\* The test's next call ncv.Broadcast(r).
CvBroadcast ==
  /\ Running
  /\ DOMAIN cvWaiters # {}
  /\ Len(cvCalls) < Len(TestBroadcasts)
  /\ LET r == TestBroadcasts[Len(cvCalls) + 1]
         b == Broadcast(howManyLeft, helpers, entering, ncv, r)
     IN  /\ howManyLeft' = b.howManyLeft
         /\ helpers' = b.helpers
         /\ entering' = b.entering
         /\ cvCalls' = Append(cvCalls, [r |-> r, err |-> b.err])
  /\ UNCHANGED <<cfg, callers, clockVars, cvWaiters, crashed, taskVars, subVars, wtVars, rcVars,
                 thrVars, stoppc, JobStats>>

\* ================================== responseChannels used on its own
\* rc.markAvailable(chanIndex) for the conduit that caller t reserved, made
\* once the task is through (the housekeeper's call, with all that lies
\* between the reservation and it left out).
ReleaseReserved(t) ==
  /\ Running
  /\ subpc[t] = "reserved"
  /\ muxOwner = 0
  /\ LET m == markAvailable(tasksWaitingOnChn, firstAvailable, subChan[t]) IN
       /\ tasksWaitingOnChn' = m.tasksWaitingOnChn
       /\ firstAvailable' = m.firstAvailable
  /\ subpc' = [subpc EXCEPT ![t] = "released"]
  /\ UNCHANGED <<cfg, callers, clockVars, cvTest, crashed, taskVars, subErr,
                 subResp, subChan, subWorker, subNwt, subUpd, wtVars, cvVars,
                 responseChannels, rcClosed, rcContinueRun, muxOwner, rpc,
                 rTr, rWt, thrVars, stoppc, JobStats>>

\* A second rc.markAvailable(chanIndex) for a conduit already released.
ReleaseAgain(t) ==
  /\ Running
  /\ subpc[t] = "released"
  /\ muxOwner = 0
  /\ LET m == markAvailable(tasksWaitingOnChn, firstAvailable, subChan[t]) IN
       /\ tasksWaitingOnChn' = m.tasksWaitingOnChn
       /\ firstAvailable' = m.firstAvailable
  /\ subpc' = [subpc EXCEPT ![t] = "releasedTwice"]
  /\ UNCHANGED <<cfg, callers, clockVars, cvTest, crashed, taskVars, subErr,
                 subResp, subChan, subWorker, subNwt, subUpd, wtVars, cvVars,
                 responseChannels, rcClosed, rcContinueRun, muxOwner, rpc,
                 rTr, rWt, thrVars, stoppc, JobStats>>

\* ============== responseChannels with chanAvail a *util.CondVar
\* In this conduit set nextAvailChanIndex and waitForAChannel take no lock:
\* pickFromAvailChannels and markAvailable lock rc.mux themselves, and
\* markAvailable ends with chanAvail.Signal(), CondVar.Broadcast(1).

\* The for-loop of this pickFromAvailChannels, which keeps min up to date.
\* The loop ends when a conduit without waiting tasks is found or i comes
\* round to rc.firstAvailable; counters and firstAvailable do not change
\* under the lock, so a loop that has not ended after a full round of the
\* cc conduits never ends (fuel counts the round down).
RECURSIVE pickScanMin(_, _, _, _, _, _, _, _, _)
pickScanMin(w, fa, cc, cp, i, min, minIndex, found, fuel) ==
  IF ~found /\ i # fa
    THEN IF fuel = 0
           THEN [i |-> i, minIndex |-> minIndex, found |-> found, spins |-> TRUE]
           ELSE IF w[i] = 0
                  THEN pickScanMin(w, fa, cc, cp, next(i, cc), min, minIndex, TRUE, fuel - 1)
                  ELSE IF w[i] < cp /\ w[i] < min
                         THEN pickScanMin(w, fa, cc, cp, next(i, cc), w[i], i, FALSE, fuel - 1)
                         ELSE pickScanMin(w, fa, cc, cp, next(i, cc), min, minIndex, FALSE, fuel - 1)
    ELSE [i |-> i, minIndex |-> minIndex, found |-> found, spins |-> FALSE]

\* pickFromAvailChannels(avlIndex) of this conduit set, run under rc.mux on
\* the counters w and the firstAvailable fa it finds there.
pickFromAvailChannelsLocked(w, fa, cc, cp, avlIndex) ==
  LET i0 == next(avlIndex, cc)
      r == pickScanMin(w, fa, cc, cp, i0, w[i0], i0, FALSE, cc + 1)
  IN  [spins |-> r.spins,
       firstAvailable |-> IF r.i = fa /\ ~r.found THEN -1 ELSE r.minIndex,
       tasksWaitingOnChn |-> [w EXCEPT ![avlIndex] = w[avlIndex] + 1]]

\* nextAvailChanIndex up to its branch: avlIndex = rc.firstAvailable, read
\* without the lock.
ReadFirstAvailable(t) ==
  /\ Running
  /\ NextCall(t)
  /\ subChan' = [subChan EXCEPT ![t] = firstAvailable]
  /\ subpc' = [subpc EXCEPT ![t] =
       IF firstAvailable > -1 THEN "pick"
       ELSE IF cfg.WaitForChanAvail THEN "chanWait" ELSE "done"]
  /\ subErr' = [subErr EXCEPT ![t] =
       IF firstAvailable = -1 /\ ~cfg.WaitForChanAvail
         THEN "cannot submit, no channel available" ELSE @]
  /\ UNCHANGED <<cfg, callers, clockVars, cvTest, crashed, taskVars, subResp,
                 subWorker, subNwt, subUpd, wtVars, cvVars, rcVars, thrVars,
                 stoppc, JobStats>>

\* rc.pickFromAvailChannels(avlIndex) with the index read earlier: lock,
\* scan, set firstAvailable, count the task on avlIndex, unlock.  A scan
\* that cannot end keeps rc.mux for ever.
PickLocked(t) ==
  /\ Running
  /\ subpc[t] = "pick"
  /\ muxOwner = 0
  /\ LET p == pickFromAvailChannelsLocked(tasksWaitingOnChn, firstAvailable,
                 cfg.ChannelCount, cfg.ChannelCapacity, subChan[t]) IN
       IF p.spins
         THEN /\ muxOwner' = t
              /\ subpc' = [subpc EXCEPT ![t] = "spinning"]
              /\ UNCHANGED <<tasksWaitingOnChn, firstAvailable>>
         ELSE /\ tasksWaitingOnChn' = p.tasksWaitingOnChn
              /\ firstAvailable' = p.firstAvailable
              /\ subpc' = [subpc EXCEPT ![t] = "reserved"]
              /\ UNCHANGED muxOwner
  /\ UNCHANGED <<cfg, callers, clockVars, cvTest, crashed, taskVars, subErr,
                 subResp, subChan, subWorker, subNwt, subUpd, wtVars, cvVars,
                 responseChannels, rcClosed, rcContinueRun, rpc,
                 rTr, rWt, thrVars, stoppc, JobStats>>

\* waitForAChannel: for avlIndex == -1 { rc.chanAvail.Wait() ... up to
\* parking in cv.cond.Wait().
ChanWaitEnter(t) ==
  /\ Running
  /\ subpc[t] = "chanWait"
  /\ subpc' = [subpc EXCEPT ![t] =
       IF WaitEnter(chanAvail) = "crash" THEN "crashed" ELSE "chanParked"]
  /\ UNCHANGED <<cfg, callers, clockVars, cvTest, crashed, taskVars, subErr,
                 subResp, subChan, subWorker, subNwt, subUpd, wtVars, cvVars,
                 rcVars, thrVars, stoppc, JobStats>>

\* The rest of chanAvail.Wait() once woken: howManyLeft--, unlock.
ChanWaitReturn(t) ==
  /\ Running
  /\ subpc[t] = "chanWoken"
  /\ howManyLeft' = WaitExit(howManyLeft, chanAvail)
  /\ subpc' = [subpc EXCEPT ![t] = "chanReread"]
  /\ UNCHANGED <<cfg, callers, clockVars, cvTest, crashed, taskVars, subErr,
                 subResp, subChan, subWorker, subNwt, subUpd, wtVars, helpers,
                 entering, rcVars, thrVars, stoppc, JobStats>>

\* avlIndex = rc.firstAvailable after the Wait, and the loop test.
ChanReread(t) ==
  /\ Running
  /\ subpc[t] = "chanReread"
  /\ subChan' = [subChan EXCEPT ![t] = firstAvailable]
  /\ subpc' = [subpc EXCEPT ![t] =
       IF firstAvailable = -1 THEN "chanWait" ELSE "pick"]
  /\ UNCHANGED <<cfg, callers, clockVars, cvTest, crashed, taskVars, subErr,
                 subResp, subWorker, subNwt, subUpd, wtVars, cvVars, rcVars,
                 thrVars, stoppc, JobStats>>

\* rc.markAvailable(chanIndex) for the conduit caller t reserved, the part
\* under rc.mux (a counter found at 0 is logged and left alone).
MarkAvailableLocked(t) ==
  /\ Running
  /\ subpc[t] = "reserved"
  /\ muxOwner = 0
  /\ LET m == markAvailable(tasksWaitingOnChn, firstAvailable, subChan[t]) IN
       /\ tasksWaitingOnChn' = m.tasksWaitingOnChn
       /\ firstAvailable' = m.firstAvailable
  /\ subpc' = [subpc EXCEPT ![t] = "signal"]
  /\ UNCHANGED <<cfg, callers, clockVars, cvTest, crashed, taskVars, subErr,
                 subResp, subChan, subWorker, subNwt, subUpd, wtVars, cvVars,
                 responseChannels, rcClosed, rcContinueRun, muxOwner, rpc,
                 rTr, rWt, thrVars, stoppc, JobStats>>

\* rc.chanAvail.Signal() at the end of markAvailable; its error is dropped.
ChanSignal(t) ==
  /\ Running
  /\ subpc[t] = "signal"
  /\ LET b == Broadcast(howManyLeft, helpers, entering, chanAvail, 1) IN
       /\ howManyLeft' = b.howManyLeft
       /\ helpers' = b.helpers
       /\ entering' = b.entering
  /\ subpc' = [subpc EXCEPT ![t] = "released"]
  /\ UNCHANGED <<cfg, callers, clockVars, cvTest, crashed, taskVars, subErr,
                 subResp, subChan, subWorker, subNwt, subUpd, wtVars, rcVars,
                 thrVars, stoppc, JobStats>>

\* ===================================== broadcast(cv) against the clock
\* time.Now().Nanosecond(): the part of the instant past the full second.
Nanosecond(t) == t % SecondLength

\* NewCondVar(gi, dl) and cv.Broadcast(r) made at instant at, with no waiter
\* around: howManyLeft = r and the helper goroutine is spawned.
TimedBroadcast(r, dl, at) ==
  /\ Running
  /\ bcast.pc = "none"
  /\ now' = at
  /\ LET b == Broadcast(howManyLeft, helpers, entering, ncv, r) IN
       /\ howManyLeft' = b.howManyLeft
       /\ helpers' = b.helpers
       /\ entering' = b.entering
       /\ bcast' = [bcast EXCEPT !.pc = IF b.err = "none" THEN "spawned" ELSE "refused",
                                 !.durationLimit = dl]
  /\ UNCHANGED <<cfg, callers, cvTest, crashed, taskVars, subVars, wtVars, rcVars,
                 thrVars, stoppc, JobStats>>

\* start := time.Now().Nanosecond()
TimedStart ==
  /\ Running
  /\ bcast.pc = "spawned"
  /\ bcast' = [bcast EXCEPT !.pc = "test", !.start = Nanosecond(now),
                            !.begun = now]
  /\ entering' = [entering EXCEPT ![ncv] = @ - 1]
  /\ UNCHANGED <<cfg, callers, now, cvTest, crashed, taskVars, subVars, wtVars,
                 howManyLeft, helpers, rcVars, thrVars, stoppc, JobStats>>

\* The loop test  cv.howManyLeft > 0 &&
\* time.Now().Nanosecond() < start+(cv.durationLimit*1000)
KeepsBroadcasting ==
  /\ howManyLeft[ncv] > 0
  /\ Nanosecond(now) < bcast.start + bcast.durationLimit

\* The loop test, then either cv.cond.Broadcast() or the end of the loop,
\* the log of the deficit and the end of the goroutine.
TimedTest ==
  /\ Running
  /\ bcast.pc = "test"
  /\ IF KeepsBroadcasting
       THEN /\ CondBroadcast(ncv)
            /\ bcast' = [bcast EXCEPT !.pc = "sleep"]
            /\ UNCHANGED helpers
       ELSE /\ bcast' = [bcast EXCEPT !.pc = "exited",
                                      !.logged = howManyLeft[ncv] > 0]
            /\ helpers' = [helpers EXCEPT ![ncv] = @ - 1]
            /\ UNCHANGED <<subpc, hkpc, cvWaiters>>
  /\ UNCHANGED <<cfg, callers, now, cvCalls, crashed, taskVars, subErr, subResp,
                 subChan, subWorker, subNwt, subUpd, waitingTasks, rObj, hkWt,
                 hkUpd, howManyLeft, entering, rcVars, thrVars, stoppc,
                 JobStats>>

\* time.Sleep(gapInterval): one tick, the goroutine running again as soon
\* as the sleep ends.
TimedSleep ==
  /\ Running
  /\ bcast.pc = "sleep"
  /\ now < MaxClock
  /\ now' = now + 1
  /\ bcast' = [bcast EXCEPT !.pc = "test"]
  /\ UNCHANGED <<cfg, callers, cvTest, crashed, taskVars, subVars, wtVars, cvVars,
                 rcVars, thrVars, stoppc, JobStats>>

\* ================================================================ Next
Next ==
  \/ DispatcherStart
  \/ \E t \in Tasks : SubmitNil(t)
  \/ \E t \in Tasks, blocking \in BOOLEAN : SubmitTask(t, blocking)
  \/ \E t \in Tasks : addNewWaitingTask(t)
  \/ \E t \in Tasks : PoolSubmit(t)
  \/ \E t \in Tasks : ThreadEnqueue(t)
  \/ \E t \in Tasks : SubWaitEnter(t)
  \/ \E t \in Tasks : SubWake(t)
  \/ \E t \in Tasks : SubmitReturn(t)
  \/ \E t \in Tasks : HkWaitEnter(t)
  \/ \E t \in Tasks : HkWake(t)
  \/ \E t \in Tasks : HkDelete(t)
  \/ \E t \in Tasks : HkMarkAvailable(t)
  \/ \E t \in Tasks : HkTaskDone(t)
  \/ \E i \in Chans : RdRecv(i)
  \/ \E i \in Chans : RdLookup(i)
  \/ \E i \in Chans : RdStore(i)
  \/ \E i \in Chans : RdBroadcast(i)
  \/ \E c \in Tasks : HelperFirstPass(c)
  \/ \E c \in Tasks : HelperBroadcast(c)
  \/ \E c \in Tasks : HelperExit(c)
  \/ \E w \in Workers : WRecv(w)
  \/ \E w \in Workers : WPublish(w)

NextStop == Next \/ StopPool \/ StopRespChans

Spec == Init /\ [][Next]_vars

\* All submitted tasks carry the same id, as when one task is handed to
\* Submit twice (TestExecutionServiceSubmissionFailure submits task2 twice,
\* one call after the other).
SameId == 1

InitDup ==
  \E c \in Configs :
    InitStateIds(c, MaxTasks, TRUE, 0, [t \in Tasks |-> SameId])

SpecDup == InitDup /\ [][Next]_vars

SpecStop == InitStop /\ [][NextStop]_vars

SpecTest == InitTest /\ [][Next]_vars

\* Dispatcher.Stop may be called once more after it returned.
NextStopTwice == NextStop \/ StopAgain

SpecStopTwice == InitStop /\ [][NextStopTwice]_vars

SpecPool == InitPool /\ [][Next]_vars

\* TestCondVar_Broadcast: the waiters, the Broadcast calls and the helpers.
NextCond ==
  \/ \E w \in DOMAIN cvWaiters : CvWait(w)
  \/ \E w \in DOMAIN cvWaiters : CvWaitReturn(w)
  \/ CvBroadcast
  \/ HelperFirstPass(ncv)
  \/ HelperBroadcast(ncv)
  \/ HelperExit(ncv)

SpecCond == InitCond /\ [][NextCond]_vars

\* The same with the scheduler's guarantee for the goroutines that can
\* take a step: the helper's passes and the return of a woken waiter.
SpecCondLive ==
  /\ SpecCond
  /\ WF_vars(HelperFirstPass(ncv))
  /\ WF_vars(HelperBroadcast(ncv))
  /\ WF_vars(\E w \in DOMAIN cvWaiters : CvWaitReturn(w))

\* Reservations and the releases that match them, in any order.
NextRC ==
  \/ \E t \in Tasks : SubmitTask(t, FALSE)
  \/ \E t \in Tasks : ReleaseReserved(t)

SpecRC == InitRC /\ [][NextRC]_vars

\* The same with releases made twice.
NextRCTwice == NextRC \/ \E t \in Tasks : ReleaseAgain(t)

SpecRCTwice == InitRC /\ [][NextRCTwice]_vars

\* The conduit set with chanAvail a *util.CondVar, used by concurrent
\* callers that reserve a conduit and release it.
InitChanAvail == \E c \in RcConfigs : InitWith(c, MaxChanAvailTasks, FALSE)

NextChanAvail ==
  \/ \E t \in Tasks : ReadFirstAvailable(t)
  \/ \E t \in Tasks : PickLocked(t)
  \/ \E t \in Tasks : ChanWaitEnter(t)
  \/ \E t \in Tasks : ChanWaitReturn(t)
  \/ \E t \in Tasks : ChanReread(t)
  \/ \E t \in Tasks : MarkAvailableLocked(t)
  \/ \E t \in Tasks : ChanSignal(t)
  \/ HelperFirstPass(chanAvail)
  \/ HelperBroadcast(chanAvail)
  \/ HelperExit(chanAvail)

SpecChanAvail == InitChanAvail /\ [][NextChanAvail]_vars

\* A Broadcast(r) that no waiter answers, made at any instant of a second,
\* and its helper.
NextClock ==
  \/ \E r \in 1..2, dl \in 1..MaxDurationLimit, at \in 0..(SecondLength - 1) :
       TimedBroadcast(r, dl, at)
  \/ TimedStart
  \/ TimedTest
  \/ TimedSleep

SpecClock == InitCond /\ [][NextClock]_vars

\* One executor driven directly by concurrent submitters, a consumer of
\* the per-task channels and Start/Stop.
NextWorker ==
  \/ \E w \in Workers : ThreadStart(w)
  \/ \E w \in Workers : ThreadStop(w)
  \/ \E t \in Tasks, ch \in -1..(MaxWorkerTasks - 1) : DirectSubmit(t, ch)
  \/ \E t \in Tasks : ThreadEnqueue(t)
  \/ \E w \in Workers : WRecv(w)
  \/ \E w \in Workers : WPublish(w)
  \/ \E i \in Chans : DirectReceive(i)

SpecWorker == InitWorker /\ [][NextWorker]_vars

\* The same with the scheduler's guarantee that the goroutine of thread.run
\* is not held back for ever when it can take its step.
SpecWorkerLive ==
  /\ SpecWorker
  /\ WF_vars(\E w \in Workers : WRecv(w))
  /\ WF_vars(\E w \in Workers : WPublish(w))

\* ============================================================== properties
\* The pool accepted task t: thread.Submit put it on a worker's queue.
AcceptedByPool(t) ==
  \/ subpc[t] \in {"wait", "parked", "woken", "return"}
  \/ subpc[t] = "done" /\ subErr[t] = "none"

\* execPool.Submit returned an error for task t inside submitTask.
RejectedByPool(t) ==
  /\ subpc[t] = "done"
  /\ subErr[t] \in
       {"executor is not started",
        "cannot submit, executor already has accepted maximum number of tasks"}

\* Submit returned an error for task t.
SubmitFailedFor(t) == subpc[t] = "done" /\ subErr[t] # "none"

\* No goroutine can take a step any more, and no goroutine panicked.
Terminated == Running /\ ~ENABLED Next

\* C1: a blocking Submit that returns for an accepted task returns a nil
\* error and a non-nil Response that carries the task's own id and the
\* status the task's Execute produced; never the zero-valued Response of a
\* registry entry that is gone.
C1_BlockingSubmitReturnsOwnResult ==
  \A t \in Tasks :
    (subpc[t] = "done" /\ taskBlocking[t] /\ AcceptedByPool(t)) =>
      /\ subErr[t] = "none"
      /\ subResp[t] # NilResponse
      /\ subResp[t] # ZeroResponse
      /\ subResp[t].TaskId = taskId[t]
      /\ execStatus[t] # TaskStatusNotSubmitted
      /\ subResp[t].Status = execStatus[t]

C1_Witness ==
  \E t \in Tasks :
    /\ subpc[t] = "done" /\ taskBlocking[t] /\ AcceptedByPool(t)
    /\ subResp[t] = [TaskId |-> taskId[t], Status |-> execStatus[t]]
    /\ hkpc[t] = "finished"

\* C2: every blocking Submit whose task the pool accepted returns: when
\* nothing can run any more, no such caller is still inside Submit.
C2_AcceptedBlockingSubmitReturns ==
  Terminated =>
    \A t \in Tasks :
      (taskBlocking[t] /\ AcceptedByPool(t)) => subpc[t] = "done"

\* C3: the housekeeper of every task accepted by Submit observes the result
\* and runs its teardown: when nothing can run any more and rc.mux is free,
\* the housekeeper of every accepted task has finished.
C3_HousekeeperTearsDownOnce ==
  (Terminated /\ muxOwner = 0) =>
    \A t \in Tasks : AcceptedByPool(t) => hkpc[t] = "finished"

\* Every submitted task's Execute has finished and its result was published
\* and read from its conduit.
Quiescent ==
  /\ \A t \in Tasks : AcceptedByPool(t) => execStatus[t] # TaskStatusNotSubmitted
  /\ \A i \in Chans : responseChannels[i] = << >>

\* C4: after quiescence the system settles with TasksInExecution = 0 and an
\* empty waiter registry: when nothing can run any more, every Submit has
\* returned without error and every result was published, the counter is 0
\* and the registry is empty.
C4_QuiescentSystemIsClean ==
  (/\ Terminated
   /\ Quiescent
   /\ \A t \in Tasks : t <= callers.tasks => subpc[t] = "done" /\ subErr[t] = "none")
  => /\ JobStats.TasksInExecution = 0
     /\ DOMAIN waitingTasks = {}

\* C5: after the pool rejected a task inside submitTask the housekeeper of
\* the task wakes and tears down: when nothing can run any more, the task's
\* record has left the registry and its conduit slot was released.
C5_RejectedTaskIsTornDown ==
  Terminated =>
    \A t \in Tasks :
      RejectedByPool(t) =>
        /\ taskId[t] \notin DOMAIN waitingTasks
        /\ hkpc[t] \in {"taskDone", "finished"}
        /\ tasksWaitingOnChn[subChan[t]] = 0

\* The state a rejected Submit must leave alone: waitingOn, firstAvailable,
\* rc.mux, the waiter registry and its records, the housekeepers, the
\* conduits, the worker queues and the counters.
SharedState ==
  <<tasksWaitingOnChn, firstAvailable, muxOwner, waitingTasks, rObj, hkpc,
    howManyLeft, helpers, responseChannels, taskQueue, taskRespChan, JobStats>>

\* C6: Submit(nil) returns "invalid task" and a Submit that finds no conduit
\* with waitForChanAvail = false returns "cannot submit, no channel
\* available"; the call that returns either error changes nothing of the
\* shared state and spawns no housekeeper.
C6_RejectedSubmitMutatesNothing ==
  [][\A t \in Tasks :
       /\ (subpc[t] = "idle" /\ subpc'[t] = "done") =>
            /\ \/ subErr'[t] = "invalid task"
               \/ /\ subErr'[t] = "cannot submit, no channel available"
                  /\ firstAvailable = -1
                  /\ ~cfg.WaitForChanAvail
            /\ subResp'[t] = NilResponse
            /\ UNCHANGED SharedState
       /\ (/\ subpc[t] = "idle" /\ subpc'[t] # "idle"
           /\ firstAvailable = -1 /\ ~cfg.WaitForChanAvail) =>
            /\ subpc'[t] = "done"
            /\ subErr'[t] \in {"invalid task", "cannot submit, no channel available"}
       /\ (subErr'[t] \in {"invalid task", "cannot submit, no channel available"}
             /\ subErr[t] = "none") =>
            (subpc[t] = "idle" /\ subpc'[t] = "done")
    ]_vars

C6_Witness ==
  \E t \in Tasks :
    /\ subpc[t] = "done"
    /\ subErr[t] = "cannot submit, no channel available"
    /\ hkpc[t] = "none"
    /\ \E u \in Tasks : AcceptedByPool(u)

C8_AsyncSubmitReturnsAtOnce ==
  \A t \in Tasks :
    (~taskBlocking[t] /\ AcceptedByPool(t)) =>
      /\ subpc[t] \in {"return", "done"}
      /\ subErr[t] = "none"
      /\ subResp[t] = NilResponse

C8_Witness ==
  \E t \in Tasks :
    /\ ~taskBlocking[t] /\ subpc[t] = "done" /\ subErr[t] = "none"
    /\ hkpc[t] # "none"
    /\ execStatus[t] = TaskStatusNotSubmitted
    /\ \E w \in Workers : wTsk[w] = t /\ wpc[w] = "execute"

\* The three Submit calls of the submission-failure test have returned,
\* each for an asynchronous task, on a started service, and no task has
\* completed.
ThreeAsyncSubmitsNoneCompleted ==
  /\ \A t \in 1..TestSubmits :
       /\ subpc[t] = "done"
       /\ ~taskBlocking[t]
       /\ subErr[t] \notin {"invalid task", "executor is not started"}
  /\ \A t \in Tasks : execStatus[t] = TaskStatusNotSubmitted

\* C9 as stated: with one conduit of capacity one, one worker of each kind
\* with queue capacity one and waitForChanAvail = false, of three async
\* tasks submitted in succession with none completing, the first two are
\* accepted and the third gets an error.
C9_FirstTwoAcceptedThirdRejected ==
  ThreeAsyncSubmitsNoneCompleted =>
    /\ subErr[1] = "none"
    /\ subErr[2] = "none"
    /\ subErr[3] # "none"

\* C9 amended: in that configuration only the first of the three Submit
\* calls is accepted; the second and the third both return "cannot submit,
\* no channel available".
C9_OnlyFirstAccepted ==
  ThreeAsyncSubmitsNoneCompleted =>
    /\ subErr[1] = "none"
    /\ subErr[2] = "cannot submit, no channel available"
    /\ subErr[3] = "cannot submit, no channel available"

C9_Witness ==
  /\ ThreeAsyncSubmitsNoneCompleted
  /\ hkpc[1] # "none" /\ hkpc[2] = "none" /\ hkpc[3] = "none"
  /\ \E w \in Workers : wTsk[w] = 1 /\ wpc[w] = "execute"

\* C10: Dispatcher.Stop while a task executes does not crash the process:
\* no worker ever sends its result on a response conduit that Stop closed.
C10_StopDoesNotCrashWorker ==
  crashed # "send on closed response channel"

\* C11: Stop is idempotent: a Stop that follows a completed Stop is a no-op
\* or returns an error; it never panics on closing a closed channel.
C11_SecondStopNeverCrashes ==
  crashed # "close of closed channel"

\* The lowest index among the executors of the array for `blocking` whose
\* HowManyInQueue() is the smallest.
LeastLoaded(blocking) ==
  CHOOSE i \in 0..(ExecutorCount(blocking) - 1) :
    \A j \in 0..(ExecutorCount(blocking) - 1) :
      \/ HowManyInQueue(Executor(blocking, i)) < HowManyInQueue(Executor(blocking, j))
      \/ /\ HowManyInQueue(Executor(blocking, i)) = HowManyInQueue(Executor(blocking, j))
         /\ i <= j

\* C12: ExecutorPool.Submit hands the task to the executor with the smallest
\* HowManyInQueue() of the array for the task's blocking flag, the lowest
\* index among those tied, whatever the queue lengths are.
C12_PoolPicksLeastLoaded ==
  [][\A t \in Tasks :
       (subpc[t] = "registered" /\ subpc'[t] # "registered") =>
         subWorker'[t] = LeastLoaded(taskBlocking[t])
    ]_vars

\* C13: a blocking task is enqueued on, and executed by, executors of the
\* blocking array only, and an asynchronous task executors of the async
\* array only.
C13_TaskStaysInItsArray ==
  \A w \in Workers :
    /\ \A k \in 1..Len(taskQueue[w]) : taskBlocking[taskQueue[w][k]] = w[1]
    /\ wTsk[w] # 0 => taskBlocking[wTsk[w]] = w[1]

C13_Witness ==
  \E a, b \in Workers :
    /\ a[1] /\ ~b[1]
    /\ wTsk[a] # 0 /\ taskBlocking[wTsk[a]]
    /\ wTsk[b] # 0 /\ ~taskBlocking[wTsk[b]]

\* Caller t is inside thread.Submit, past the test of continueRun.
InThreadSubmit(t) == subpc[t] \in {"enqueue", "enqueueDirect"}

\* The executor whose Submit caller t called.
WorkerOf(t) == Executor(taskBlocking[t], subWorker[t])

QueueFullError == "cannot submit, executor already has accepted maximum number of tasks"

\* C14: with waitForAvailability = false, a caller inside Submit of a
\* running worker can always take its step, whatever the other submitters
\* and the consumer do; the step appends the task and returns nil when the
\* queue holds fewer than TaskQueueCapacity tasks, and otherwise returns the
\* queue-full error with the queue unchanged; no step makes a queue longer
\* than TaskQueueCapacity.
C14_SubmitNeverBlocksNorOverfills ==
  [][~cfg.WaitForAvailability =>
       /\ \A w \in Workers : Len(taskQueue'[w]) <= cfg.TaskQueueCapacity
       /\ \A t \in Tasks :
            (InThreadSubmit(t) /\ continueRun[WorkerOf(t)]
               /\ queueState[WorkerOf(t)] = "open") =>
              /\ ENABLED ThreadEnqueue(t)
              /\ subpc'[t] # subpc[t] =>
                   IF Len(taskQueue[WorkerOf(t)]) < cfg.TaskQueueCapacity
                     THEN /\ taskQueue'[WorkerOf(t)] =
                               Append(taskQueue[WorkerOf(t)], t)
                          /\ subErr'[t] = "none"
                     ELSE /\ subErr'[t] = QueueFullError
                          /\ subpc'[t] = "done"
                          /\ taskQueue'[WorkerOf(t)] = taskQueue[WorkerOf(t)]]_vars

\* A submitter was turned away from a full queue of a running worker while
\* another one, accepted before, has returned nil.
C14_Witness ==
  /\ ~cfg.WaitForAvailability
  /\ \E t, u \in Tasks :
       /\ subpc[t] = "done" /\ subErr[t] = QueueFullError
       /\ subpc[u] = "done" /\ subErr[u] = "none"
       /\ continueRun[WorkerOf(t)]
       /\ Len(taskQueue[WorkerOf(t)]) = cfg.TaskQueueCapacity

NotStartedError == "executor is not started"

\* C15: a caller whose Submit reaches an executor that is not running, one
\* never started or one already stopped, gets the error and no queue
\* changes.  The step is the one in which the caller tests continueRun: the
\* first step of a direct caller or the pool's step of a registered one.
C15_SubmitToStoppedWorkerFails ==
  [][\A t \in Tasks :
       (/\ subpc[t] \in {"idle", "registered"}
        /\ subpc'[t] # subpc[t]
        /\ ~continueRun[Executor(taskBlocking'[t], subWorker'[t])]) =>
         /\ subpc'[t] = "done"
         /\ subErr'[t] = NotStartedError
         /\ taskQueue' = taskQueue]_vars

\* An executor accepted one task, was stopped, and turned away a later
\* one; nothing but the accepted task was ever queued.
C15_Witness ==
  \E u, t \in Tasks :
    /\ u < t
    /\ subpc[u] = "done" /\ subErr[u] = "none"
    /\ subpc[t] = "done" /\ subErr[t] = NotStartedError
    /\ queueState[WorkerOf(t)] = "closed"
    /\ crashed = "none"

\* Task t was accepted by an executor used directly and has a conduit.
AcceptedWithConduit(t) ==
  subpc[t] = "done" /\ subErr[t] = "none" /\ HasRespChan(t)

\* How many places hold task t: slots of intake queues, executors busy
\* with it, and the record of its execution.
Places(q, tsk, st, t) ==
  LET slots == {<<w, i>> \in Workers \X (1..MaxWorkerTasks) :
                   i <= Len(q[w]) /\ q[w][i] = t}
  IN  Cardinality(slots) + Cardinality({w \in Workers : tsk[w] = t})
        + (IF st[t] # 0 THEN 1 ELSE 0)

C16_Step ==
  /\ \A t \in Tasks :
       /\ AcceptedWithConduit(t)' => Places(taskQueue', wTsk', execStatus', t) = 1
       /\ execStatus[t] # 0 => execStatus'[t] = execStatus[t]
       /\ execStatus'[t] # execStatus[t] =>
            /\ \E w \in Workers : wTsk[w] = t /\ wTsk'[w] = 0
            /\ \E r \in Execute(t) :
                 /\ r.Status = execStatus'[t]
                 /\ responseChannels'[taskRespChan[t]] =
                      Append(responseChannels[taskRespChan[t]], Published(t, r))
  /\ \A w \in Workers :
       (wTsk'[w] # wTsk[w] /\ wTsk'[w] # 0) =>
         /\ wTsk[w] = 0
         /\ taskQueue[w] # << >>
         /\ wTsk'[w] = Head(taskQueue[w])
         /\ taskQueue'[w] = Tail(taskQueue[w])
  /\ \A i \in Chans :
       Len(responseChannels'[i]) > Len(responseChannels[i]) =>
         \E t \in Tasks :
           /\ taskRespChan[t] = i /\ execStatus[t] = 0 /\ execStatus'[t] # 0
           /\ Len(responseChannels'[i]) = Len(responseChannels[i]) + 1

\* C16: a task with a conduit accepted by a running executor is in exactly
\* one place at any time (queued once, being executed, or executed); the
\* executor takes the oldest queued task and only when it has none in hand;
\* an execution publishes one result on the task's own conduit and is never
\* repeated; and, the executor staying in operation, every such task is
\* eventually executed.
C16_AcceptedTaskRunsOnceInOrder ==
  /\ [][C16_Step]_vars
  /\ \A t \in Tasks :
       AcceptedWithConduit(t) ~>
         (execStatus[t] # 0 \/ ~continueRun[WorkerOf(t)] \/ crashed # "none")

\* Two tasks with conduits of their own were accepted one after the other
\* by an executor that is still running; both were executed and the later
\* one's result waits on its conduit.
C16_Witness ==
  \E t, u \in Tasks :
    /\ t < u
    /\ AcceptedWithConduit(t) /\ AcceptedWithConduit(u)
    /\ execStatus[t] # 0 /\ execStatus[u] # 0
    /\ Len(responseChannels[taskRespChan[u]]) = 1
    /\ continueRun[WorkerOf(u)]

\* C17: whenever a conduit grows, an executor has just finished the task it
\* had in hand, the conduit is the one assigned to that task, and the new
\* last element carries that task's id, whichever of the ids Execute may
\* have set (its own or none).
C17_PublishedResultNamesExecutedTask ==
  [][\A i \in Chans :
       Len(responseChannels'[i]) > Len(responseChannels[i]) =>
         \E w \in Workers :
           /\ wTsk[w] # 0 /\ wTsk'[w] = 0
           /\ taskRespChan[wTsk[w]] = i
           /\ \A j \in Chans \ {i} : responseChannels'[j] = responseChannels[j]
           /\ responseChannels'[i] =
                Append(responseChannels[i],
                       [TaskId |-> taskId[wTsk[w]],
                        Status |-> execStatus'[wTsk[w]]])]_vars

\* A result is on the conduit of the task it names, and that task has
\* been executed.
C17_Witness ==
  \E t \in Tasks :
    /\ HasRespChan(t) /\ execStatus[t] # 0
    /\ responseChannels[taskRespChan[t]] # << >>
    /\ Head(responseChannels[taskRespChan[t]]).TaskId = taskId[t]

\* Task u, which has a conduit, waits in an intake queue behind a task
\* that has none.
QueuedBehindConduitless(u) ==
  \E w \in Workers, i, j \in 1..MaxWorkerTasks :
    /\ i < j /\ j <= Len(taskQueue[w])
    /\ taskRespChan[taskQueue[w][i]] = -1
    /\ taskQueue[w][j] = u
    /\ taskRespChan[u] # -1

C18_Step ==
  /\ \A t \in Tasks :
       taskRespChan'[t] = -1 =>
         /\ execStatus'[t] = 0
         /\ \A w \in Workers : wTsk'[w] # t
  /\ \A w \in Workers :
       (/\ taskQueue[w] # << >>
        /\ taskRespChan[Head(taskQueue[w])] = -1
        /\ taskQueue'[w] = Tail(taskQueue[w])) =>
         /\ wTsk'[w] = 0
         /\ wpc'[w] = IF continueRun[w] THEN "recv" ELSE "exited"
         /\ UNCHANGED <<execStatus, responseChannels, crashed>>

\* C18: a task without a conduit is never in an executor's hands and never
\* gets an execution status; the step that takes it off the queue changes
\* no conduit and leaves the executor at its receive (or at its exit once
\* stopped); and the executor staying in operation, a task with a conduit
\* queued behind such a task is eventually executed.
C18_ConduitlessTaskIsSkipped ==
  /\ [][C18_Step]_vars
  /\ \A u \in Tasks :
       QueuedBehindConduitless(u) ~>
         (execStatus[u] # 0 \/ ~continueRun[WorkerOf(u)] \/ crashed # "none")

\* A task without a conduit was accepted and taken off the queue without
\* being executed, and the executor, still running, is back at its receive
\* having executed a task accepted with a conduit.
C18_Witness ==
  \E t, u \in Tasks :
    /\ subpc[t] = "done" /\ subErr[t] = "none" /\ taskRespChan[t] = -1
    /\ execStatus[t] = 0
    /\ taskQueue[WorkerOf(t)] = << >>
    /\ wpc[WorkerOf(t)] = "recv" /\ continueRun[WorkerOf(t)]
    /\ taskRespChan[u] # -1 /\ execStatus[u] # 0

\* C20: a Broadcast(r) call that finds howManyLeft > 0 returns "earlier
\* broadcast not complete" and changes neither howManyLeft nor the helpers;
\* one that finds howManyLeft = 0 returns nil, leaves howManyLeft = r and
\* has spawned one helper.
C20_BroadcastRefusedWhilePending ==
  [][Len(cvCalls') > Len(cvCalls) =>
       LET call == cvCalls'[Len(cvCalls')] IN
         IF howManyLeft[ncv] > 0
           THEN /\ call.err = "earlier broadcast not complete"
                /\ UNCHANGED <<howManyLeft, helpers, entering>>
           ELSE /\ call.err = "none"
                /\ howManyLeft'[ncv] = call.r
                /\ helpers'[ncv] = helpers[ncv] + 1]_vars

\* Broadcast(2) was accepted and Broadcast(1) refused before any waiter
\* called Wait: howManyLeft is 2 and one helper runs.
C20_Witness ==
  /\ cvCalls = <<[r |-> 2, err |-> "none"],
                 [r |-> 1, err |-> "earlier broadcast not complete"]>>
  /\ \A w \in DOMAIN cvWaiters : cvWaiters[w].pc = "sleep"
  /\ howManyLeft[ncv] = 2
  /\ helpers[ncv] = 1

\* Every waiter has called Wait, and found the receipts of a Broadcast
\* outstanding when it did: the Broadcast was issued before its Wait.
AllWaitAfterBroadcast ==
  \A w \in DOMAIN cvWaiters :
    cvWaiters[w].pc # "sleep" /\ cvWaiters[w].sawLeft > 0

AllWaitersReturned == \A w \in DOMAIN cvWaiters : cvWaiters[w].pc = "done"

\* The helper has left its loop with receipts outstanding: it re-broadcasts
\* no more.
HelperGaveUp == helpers[ncv] = 0 /\ howManyLeft[ncv] > 0

OnlyFirstBroadcastAccepted ==
  /\ cvCalls # << >>
  /\ cvCalls[1] = [r |-> 2, err |-> "none"]
  /\ \A k \in 2..Len(cvCalls) : cvCalls[k].err # "none"

\* C19: with Broadcast(2) the only accepted call, howManyLeft is 2 less the
\* number of waiters that returned from Wait, so it is exactly 0 once both
\* have; and when both waiters call Wait after the Broadcast, both return
\* and howManyLeft is 0, unless the helper stops re-broadcasting (leaves its
\* loop on the duration limit) with a receipt outstanding.
C19_BothWaitersWakeAndReceiptsReachZero ==
  /\ [](OnlyFirstBroadcastAccepted =>
          howManyLeft[ncv] =
            2 - Cardinality({w \in DOMAIN cvWaiters : cvWaiters[w].pc = "done"}))
  /\ (OnlyFirstBroadcastAccepted /\ AllWaitAfterBroadcast) ~>
       ((AllWaitersReturned /\ howManyLeft[ncv] = 0) \/ HelperGaveUp)

\* Both waiters called Wait after Broadcast(2), the second Broadcast was
\* refused, both have returned and howManyLeft is back at 0.
C19_Witness ==
  /\ OnlyFirstBroadcastAccepted /\ Len(cvCalls) = 2
  /\ AllWaitAfterBroadcast
  /\ AllWaitersReturned
  /\ howManyLeft[ncv] = 0

\* C21: with no waiter calling Wait, the helper makes no pass once
\* durationLimit has elapsed since it read start, whatever the instant of
\* the second at which it started; when it leaves the loop it has logged the
\* deficit.
C21_HelperStopsWithinDurationLimit ==
  [][/\ (bcast.pc = "test" /\ bcast'.pc = "sleep") =>
          now - bcast.begun < bcast.durationLimit
     /\ (bcast.pc = "test" /\ bcast'.pc = "exited") => bcast'.logged]_vars

\* C22: every conduit's counter of waiting tasks lies between 0 and the
\* capacity of the conduits.
C22_WaitingCountWithinCapacity ==
  \A i \in Chans :
    tasksWaitingOnChn[i] >= 0 /\ tasksWaitingOnChn[i] <= cfg.ChannelCapacity

\* C23: firstAvailable is -1 or the index of a conduit with fewer waiting
\* tasks than the capacity.
C23_FirstAvailableHasRoom ==
  firstAvailable # -1 =>
    tasksWaitingOnChn[firstAvailable] < cfg.ChannelCapacity

\* C24: firstAvailable is -1 exactly when every conduit has as many waiting
\* tasks as the capacity.
C24_ExhaustedIffAllFull ==
  firstAvailable = -1 <=>
    \A i \in Chans : tasksWaitingOnChn[i] = cfg.ChannelCapacity

\* Caller t takes a reservation in this step.
Reserves(t) == subpc[t] = "idle" /\ subpc'[t] = "reserved"

\* The indices the reference rule allows as the new firstAvailable after a
\* reservation from start on counters w: among the other conduits, those
\* with no waiting task if there are any; otherwise those with the least
\* number of waiting tasks below the capacity; otherwise only -1.
ReferenceNext(w, start) ==
  LET others == Chans \ {start}
      zeros == {i \in others : w[i] = 0}
      below == {i \in others : w[i] < cfg.ChannelCapacity}
  IN  IF zeros # {} THEN zeros
      ELSE IF below # {}
             THEN {i \in below : \A j \in below : w[i] <= w[j]}
             ELSE {-1}

\* C25: the firstAvailable left by a reservation is one the reference rule
\* allows for the counters found at the call.
C25_NextFirstAvailableFollowsRule ==
  [][\A t \in Tasks :
       Reserves(t) =>
         firstAvailable' \in ReferenceNext(tasksWaitingOnChn, firstAvailable)]_vars

\* C26: a reservation that succeeds returns the index firstAvailable held
\* at the call, a conduit of the structure, and adds one to the counter of
\* that conduit and to no other.
C26_ReservationCountsItsConduit ==
  [][\A t \in Tasks :
       Reserves(t) =>
         /\ firstAvailable \in Chans
         /\ subChan'[t] = firstAvailable
         /\ tasksWaitingOnChn' =
              [tasksWaitingOnChn EXCEPT ![firstAvailable] = @ + 1]]_vars

\* A caller holds a reservation of a conduit other than the first while
\* another conduit has waiting tasks too.
C26_Witness ==
  \E t \in Tasks, i \in Chans :
    /\ subpc[t] = "reserved" /\ subChan[t] > 0
    /\ i # subChan[t]
    /\ tasksWaitingOnChn[i] > 0
    /\ tasksWaitingOnChn[subChan[t]] > 0

\* Caller t makes a markAvailable call for its conduit in this step.
Releases(t) ==
  \/ subpc[t] = "reserved" /\ subpc'[t] = "released"
  \/ subpc[t] = "released" /\ subpc'[t] = "releasedTwice"

\* C27: markAvailable(i) takes one off the counter of conduit i when it is
\* positive and leaves a counter of 0 at 0, changes no other counter, and
\* makes i the firstAvailable exactly when firstAvailable was -1.
C27_MarkAvailableFrame ==
  [][\A t \in Tasks :
       Releases(t) =>
         LET i == subChan[t] IN
           /\ tasksWaitingOnChn'[i] =
                IF tasksWaitingOnChn[i] > 0 THEN tasksWaitingOnChn[i] - 1 ELSE 0
           /\ \A j \in Chans \ {i} : tasksWaitingOnChn'[j] = tasksWaitingOnChn[j]
           /\ firstAvailable' = IF firstAvailable = -1 THEN i ELSE firstAvailable]_vars

\* The only reservation ever taken, on a structure with one conduit, was
\* released twice: the first call found the counter at 1 and firstAvailable
\* at -1, the second found the counter at 0.
C27_Witness ==
  /\ cfg.ChannelCount = 1
  /\ subpc[1] = "releasedTwice"
  /\ \A t \in Tasks \ {1} : subpc[t] = "idle"
  /\ tasksWaitingOnChn[0] = 0
  /\ firstAvailable = 0

\* ------------------------------------------------------------------ C28
RECURSIVE SumUpTo(_, _)
SumUpTo(w, i) == IF i < 0 THEN 0 ELSE w[i] + SumUpTo(w, i - 1)

\* Reservations held on all conduits together.
ReservedTotal == SumUpTo(tasksWaitingOnChn, cfg.ChannelCount - 1)

\* Waiter records present in the registry.
WaiterRecords == Cardinality(DOMAIN waitingTasks)

\* No Submit call stands between nextAvailChanIndex and addNewWaitingTask,
\* and no housekeeper between delete and markAvailable.
NoBookkeepingInFlight ==
  \A t \in Tasks : subpc[t] # "reserved" /\ hkpc[t] # "markAvailable"

\* Dispatcher.Start has run, nothing has panicked and nobody called Stop.
ServiceRunning == Running /\ rcContinueRun /\ stoppc = "idle"

\* C28: while the service runs, whenever no submission is between reserving
\* its conduit and registering its waiter record and no housekeeper is between
\* deleting a record and releasing its conduit, the sum of tasksWaitingOnChn
\* over all conduits equals the number of waiter records in the registry.
C28_ReservationsMatchRecords ==
  (ServiceRunning /\ NoBookkeepingInFlight) => ReservedTotal = WaiterRecords

\* ------------------------------------------------------------------ C29
\* The housekeeper of task t has called markAvailable(chanIndex).
ReleasedByHousekeeper(t) == hkpc[t] \in {"taskDone", "finished"}

\* The reader stored the result of task t in the record the housekeeper holds.
ResultConsumed(t) ==
  /\ HkWt(t).responseReceived
  /\ HkWt(t).taskResponse.TaskId = taskId[t]
  /\ execStatus[t] # TaskStatusNotSubmitted

\* The housekeeper of t releases only after the result of t was consumed
\* (it drops its copy of the record when it is done).
ReleaseFollowsResult ==
  \A t \in Tasks :
    hkpc[t] \in {"delete", "markAvailable", "taskDone"} => ResultConsumed(t)

\* A housekeeper about to call markAvailable(i) finds the counter of i above 0.
NoDoubleRelease ==
  \A t \in Tasks : hkpc[t] = "markAvailable" => tasksWaitingOnChn[subChan[t]] > 0

\* Once nothing can run any more, every task whose Execute produced a result
\* has had its conduit released.
NoReservationLeftForever ==
  (Terminated /\ muxOwner = 0) =>
    \A t \in Tasks :
      (AcceptedByPool(t) /\ execStatus[t] # TaskStatusNotSubmitted) => ReleasedByHousekeeper(t)

\* C29: for every task that reserved a conduit i, markAvailable(i) is called
\* once, after the task's result was consumed, never on a counter that is
\* already 0, and no reservation of a task that has a result stays unreleased
\* for ever.
C29_ReservationReleasedExactlyOnce ==
  ReleaseFollowsResult /\ NoDoubleRelease /\ NoReservationLeftForever

\* ------------------------------------------------------------------ C30
\* No Submit call is under way and no housekeeper stands between deleting
\* its record and counting the job done.
NoCountingInFlight ==
  \A t \in Tasks :
    /\ subpc[t] \in {"idle", "done"}
    /\ hkpc[t] \notin {"markAvailable", "taskDone"}

\* C30: while the service runs, at every observation made when no Submit
\* call and no teardown is under way, the number of waiter records in the
\* registry equals the TasksInExecution counter.
C30_RecordsMatchTasksInExecution ==
  (ServiceRunning /\ NoCountingInFlight) =>
    WaiterRecords = JobStats.TasksInExecution

\* ------------------------------------------------------------------ C31
\* Caller t counts itself on the conduit it read from firstAvailable.
PicksConduit(t) == subpc[t] = "pick" /\ subpc'[t] = "reserved"

\* C31: reservations are serialised by rc.mux: when a caller increments the
\* counter of the conduit it read from firstAvailable, either firstAvailable
\* still names that conduit (its read is not stale) or the increment keeps
\* the counter within the capacity; no reservation made from a stale
\* firstAvailable pushes a conduit's counter above C.
C31_ReservationsSerialised ==
  [][\A t \in Tasks :
       PicksConduit(t) =>
         \/ firstAvailable = subChan[t]
         \/ tasksWaitingOnChn'[subChan[t]] <= cfg.ChannelCapacity]_vars

\* ------------------------------------------------------------------ C32
\* Nothing of the conduit set can run any more and rc.mux is free.
ChanAvailAtRest == Running /\ muxOwner = 0 /\ ~ENABLED NextChanAvail

\* A caller is inside waitForAChannel, parked in chanAvail.Wait().
WaitsForAChannel(t) == subpc[t] = "chanParked"

\* C32: with waitForChannel set, a reservation that found firstAvailable = -1
\* returns a conduit after a later markAvailable: no caller ever stops on
\* rc.mux while holding it, and once nothing can run any more no caller is
\* still parked in waitForAChannel while firstAvailable names a conduit.
C32_WaitingReservationReturns ==
  /\ \A t \in Tasks : subpc[t] # "lockedout"
  /\ (ChanAvailAtRest /\ firstAvailable # -1) =>
       \A t \in Tasks : ~WaitsForAChannel(t)

\* ------------------------------------------------------------------ C33
\* The housekeeper of task t has deleted the waiter record.
RecordRemoved(t) == hkpc[t] \in {"markAvailable", "taskDone", "finished"}

\* The blocking caller of t re-read the record and found responseReceived.
SubmitterSawResult(t) == subpc[t] \in {"return", "done"}

\* C33: for a blocking task the housekeeper removes the waiter record only
\* after the blocking submitter re-read it and saw responseReceived = true,
\* and the process never stops on the nil CondVar of a missing record.
C33_RecordOutlivesBlockingSubmitter ==
  /\ \A t \in Tasks :
       (taskBlocking[t] /\ AcceptedByPool(t) /\ RecordRemoved(t)) => SubmitterSawResult(t)
  /\ crashed # "nil CondVar in submitTask"

\* ------------------------------------------------------------------ C34
\* Goroutines whose next statement writes the registry entry of task t.  No
\* lock is held at any of them: the CondVar's mutex is taken only inside
\* Wait and Broadcast, rc.mux only inside the conduit set.
\*   reader i        (*rc.waitingTasksInDispatcher)[tr.TaskId] = wt
\*   housekeeper     delete(disp.waitingTasks, tr.TaskId)
EntryWriters(t) ==
  {<<"reader", i>> : i \in {j \in Chans : rpc[j] = "store" /\ rTr[j].TaskId = taskId[t]}}
    \cup {<<"housekeeper", u>> : u \in {v \in Tasks : hkpc[v] = "delete" /\
                                         HkWt(v).taskResponse.TaskId = taskId[t]}}

\* Goroutines whose next statement reads that entry, Wait having returned
\* and released the CondVar's mutex:
\*   reader i        wt = (*rc.waitingTasksInDispatcher)[tr.TaskId]
\*   housekeeper     updatedWt = disp.waitingTasks[tsk.GetId()]
\*   blocking caller updatedWt = disp.waitingTasks[tsk.GetId()]
EntryReaders(t) ==
  {<<"reader", i>> : i \in {j \in Chans : rpc[j] = "lookup" /\ rTr[j].TaskId = taskId[t]}}
    \cup {<<"housekeeper", u>> : u \in {v \in Tasks : hkpc[v] = "woken" /\ taskId[v] = taskId[t]}}
    \cup {<<"submitter", u>> : u \in {v \in Tasks : subpc[v] = "woken" /\ taskId[v] = taskId[t]}}

\* C34: the accesses of the reader, the housekeeper and the blocking
\* submitter to a waiter record exclude one another: a goroutine about to
\* write the registry entry of a task is the only one about to access it.
C34_RecordAccessesExcludeEachOther ==
  \A t \in Tasks :
    EntryWriters(t) # {} => Cardinality(EntryWriters(t) \cup EntryReaders(t)) = 1

\* ------------------------------------------------------------------ C35
\* Dispatcher.Submit has called JobStats.taskSubmitted for task t.
CountedSubmitted(t) == subpc[t] = "done" /\ subErr[t] = "none"

\* The housekeeper of t has called JobStats.taskDone.
CountedDone(t) == hkpc[t] = "finished"

\* C35: for every accepted task the increment by taskSubmitted comes after
\* the hand-over to the pool and before the housekeeper's taskDone for the
\* same task, so TasksInExecution is never negative.
C35_SubmittedCountedBeforeDone ==
  /\ \A t \in Tasks : (AcceptedByPool(t) /\ CountedDone(t)) => CountedSubmitted(t)
  /\ JobStats.TasksInExecution >= 0

\* ------------------------------------------------------------------ C36
\* The housekeeper of t calls markAvailable(chanIndex).
HousekeeperReleases(t) == hkpc[t] = "markAvailable" /\ hkpc'[t] = "taskDone"

\* The result of task t is still to come or still to be read: t is queued or
\* executing on a worker, or its response sits in its conduit, or the reader
\* has not stored it yet.
ResultOutstanding(t) ==
  \/ \E w \in Workers : wTsk[w] = t \/ \E k \in 1..Len(taskQueue[w]) : taskQueue[w][k] = t
  \/ /\ execStatus[t] # TaskStatusNotSubmitted
     /\ \/ \E i \in Chans : \E k \in 1..Len(responseChannels[i]) :
              responseChannels[i][k].TaskId = taskId[t]
        \/ \E i \in Chans : rpc[i] \in {"lookup", "store"} /\ rTr[i].TaskId = taskId[t]

InQueue(t) ==
  \E w \in Workers : \E k \in 1..Len(taskQueue[w]) : taskQueue[w][k] = t

\* The waiter record of t is in the registry and its housekeeper exists.
WaiterRegistered(t) ==
  /\ taskId[t] \in DOMAIN waitingTasks
  /\ MapGet(waitingTasks, taskId[t]).cond = t
  /\ hkpc[t] # "none"

\* C37: the waiter record of a task is in the registry and its housekeeper
\* has been created before the task is put on a worker's queue, and a
\* result is published only for a task whose housekeeper was created.
C37_WaiterRegisteredBeforeQueued ==
  [][\A t \in Tasks :
       /\ (~InQueue(t) /\ InQueue(t)') => WaiterRegistered(t)
       /\ (execStatus[t] = TaskStatusNotSubmitted /\ execStatus'[t] # TaskStatusNotSubmitted)
            => hkpc[t] # "none"]_vars

C37_Witness ==
  \E t \in Tasks : InQueue(t) /\ WaiterRegistered(t) /\ hkpc[t] = "wait"

\* ------------------------------------------------------------------ C38
\* C38: once the conduit set is stopped, a reader that reads the zero value
\* from its closed conduit terminates: the process does not stop on the nil
\* CondVar of a missing waiter record, and no waiter record for task id 0
\* is put in the registry.
C38_ReaderToleratesClosedConduit ==
  rcClosed =>
    /\ crashed # "nil CondVar in reader"
    /\ ZeroResponse.TaskId \notin DOMAIN waitingTasks

\* ------------------------------------------------------------------ C39
\* C39: a thread.Submit that runs together with or after thread.Stop fails
\* only that Submit, by returning an error: under no interleaving of Submit
\* and Stop does a submitter send on the task queue that Stop closed and
\* end the process.
C39_SubmitRacingStopOnlyFails ==
  crashed # "send on closed task queue"

\* ------------------------------------------------------------------ C40
\* C40: CondVar.howManyLeft is never negative: the decrements made by Wait
\* on wake-up never exceed the receipts the preceding Broadcast(r) asked
\* for, however many goroutines are parked on the CondVar.
C40_HowManyLeftNeverNegative ==
  \A c \in DOMAIN howManyLeft : howManyLeft[c] >= 0
====
